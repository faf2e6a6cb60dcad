---------------------------- MODULE LogCallProofs ----------------------------
(***************************************************************************)
(* A thread's log calls, for every set of call sites and arguments,        *)
(* nested to any depth: the thread-local producer is borrowed and given    *)
(* back as it must be, and what the worker decodes is what was logged.     *)
(***************************************************************************)
EXTENDS LogCall, WireFormatProofs

-----------------------------------------------------------------------------
(* The stack of calls                                                      *)

Args == UNION {Yields[e] : e \in DOMAIN Yields}
Places == {"sizing", "measure", "encode"}
Frames == [site : Sites, at : Places, i : Nat, ran : BOOLEAN, size : Nat, off : Nat,
           arg_size : Nat, said : Seq(Args)]

\* A call is at one of its arguments or behind the last one.
FrameOK(f) ==
  /\ f \in Frames
  /\ f.i \in 1..(Arity(f.site) + 1) /\ (f.at = "encode" => f.i <= Arity(f.site))
Inside(f) == f.at # "sizing"

\* t is s without its last frame, with another one in its place, or with one more.
Popped(t, s) == Len(t) = Len(s) - 1 /\ \A k \in 1..(Len(s) - 1) : t[k] = s[k]
Replaced(t, s, f) ==
  Len(t) = Len(s) /\ (\A k \in 1..(Len(s) - 1) : t[k] = s[k]) /\ t[Len(s)] = f
Pushed(t, s, f) ==
  Len(t) = Len(s) + 1 /\ (\A k \in 1..Len(s) : t[k] = s[k]) /\ t[Len(s) + 1] = f

LEMMA FrontPopped ==
  ASSUME NEW S, NEW s \in Seq(S), s # <<>>
  PROVE  Front(s) \in Seq(S) /\ Popped(Front(s), s) /\ Len(s) \in Nat \ {0} /\ Last(s) = s[Len(s)] /\ Last(s) \in S
<1>1. Len(s) \in Nat \ {0} /\ \A k \in 1..Len(s) : s[k] \in S
  BY LenProperties, ElementOfSeq, EmptySeq
<1>2. PICK t : t = SubSeq(s, 1, Len(s) - 1)
  OBVIOUS
<1>3. /\ t \in Seq(S)
      /\ Len(t) = IF 1 <= Len(s) - 1 THEN (Len(s) - 1) - 1 + 1 ELSE 0
      /\ \A k \in 1..((Len(s) - 1) - 1 + 1) : t[k] = s[1 + k - 1]
  <2>1. 1 \in Int /\ Len(s) - 1 \in Int /\ \A k \in 1..(Len(s) - 1) : s[k] \in S
    BY <1>1
  <2> QED
    BY <1>2, <2>1, SubSeqProperties
<1>4. Popped(t, s)
  <2>1. PICK n \in Nat : n = Len(s) - 1
    BY <1>1
  <2>2. n - 1 + 1 = n /\ \A k \in 1..n : 1 + k - 1 = k
    OBVIOUS
  <2>3. Len(t) = n /\ \A k \in 1..n : t[k] = s[k]
    <3>1. Len(t) = n
      BY <1>3, <2>1, <2>2
    <3>2. \A k \in 1..n : t[k] = s[1 + k - 1]
      BY <1>3, <2>1, <2>2
    <3> QED
      BY <2>2, <3>1, <3>2
  <2> QED
    BY <2>1, <2>3 DEF Popped
<1> QED
  BY <1>1, <1>2, <1>3, <1>4 DEF Front, Last

LEMMA AppendPushed ==
  ASSUME NEW S, NEW s \in Seq(S), NEW f \in S
  PROVE  Append(s, f) \in Seq(S) /\ Pushed(Append(s, f), s, f)
BY AppendProperties, LenProperties DEF Pushed

LEMMA UpdateReplaced ==
  ASSUME NEW S, NEW s \in Seq(S), s # <<>>, NEW f \in S
  PROVE  Append(Front(s), f) \in Seq(S) /\ Replaced(Append(Front(s), f), s, f)
<1>1. PICK t \in Seq(S) : t = Front(s) /\ Popped(t, s) /\ Len(s) \in Nat \ {0}
  BY FrontPopped
<1>2. PICK u \in Seq(S) : u = Append(t, f) /\ Pushed(u, t, f)
  BY AppendPushed
<1>3. Len(t) = Len(s) - 1 /\ (Len(s) - 1) + 1 = Len(s)
  BY <1>1 DEF Popped
<1>4. Replaced(u, s, f)
  BY <1>1, <1>2, <1>3 DEF Replaced, Pushed, Popped
<1> QED
  BY <1>1, <1>2, <1>4

-----------------------------------------------------------------------------
(* The inductive invariant, whatever the arguments return                  *)

Flags ==
  /\ backend \in BOOLEAN /\ on_worker \in BOOLEAN /\ slot \in BOOLEAN /\ borrowed \in BOOLEAN /\ locked \in BOOLEAN
  /\ registered \in Nat /\ dropped \in Nat /\ made \in 0..MaxCalls

Queues == registered = (IF slot THEN 1 ELSE 0) /\ (on_worker => ~slot)

Stack == stack \in Seq(Frames) /\ \A k \in 1..Len(stack) : FrameOK(stack[k])

\* One call at most is inside write, and then the producer is borrowed.
Borrowing ==
  /\ borrowed <=> \E k \in 1..Len(stack) : Inside(stack[k])
  /\ \A j, k \in 1..Len(stack) : Inside(stack[j]) /\ Inside(stack[k]) => j = k

\* The reservation is as long as the call that holds it believes.
Reserved ==
  /\ area \in Seq(Cell)
  /\ \A k \in 1..Len(stack) : Inside(stack[k]) => Len(area) = stack[k].size

Records == [site : Sites, size : Nat, bytes : Seq(Cell), said : Seq(Args)]
Committed == queue \in Seq(Records) /\ \A k \in 1..Len(queue) : Len(queue[k].bytes) = queue[k].size

IInv == Flags /\ Queues /\ Stack /\ Borrowing /\ Reserved /\ Committed

\* The call on top of the stack and the argument it is at.
LEMMA TopParts ==
  ASSUME Stack, stack # <<>>
  PROVE  /\ Len(stack) \in Nat \ {0} /\ Top = stack[Len(stack)] /\ FrameOK(Top)
         /\ Front(stack) \in Seq(Frames) /\ Popped(Front(stack), stack)
<1>1. /\ Len(stack) \in Nat \ {0} /\ Last(stack) = stack[Len(stack)]
      /\ Front(stack) \in Seq(Frames) /\ Popped(Front(stack), stack)
  BY FrontPopped DEF Stack
<1>2. Len(stack) \in 1..Len(stack)
  BY <1>1
<1> QED
  BY <1>1, <1>2 DEF Stack, Top

LEMMA ExprParts ==
  ASSUME Stack, NEW at, AtArgument(at)
  PROVE  /\ stack # <<>> /\ Top.at = at /\ Top.i \in 1..Arity(Top.site) /\ Top.site \in Sites
         /\ Expr \in DOMAIN Yields /\ Calls[Expr] \in Sites \cup {None}
         /\ \A a \in Yields[Expr] : a \in Args /\ WellFormed(a)
<1>1. stack # <<>> /\ Top.at = at /\ Top.i <= Arity(Top.site)
  BY DEF AtArgument, InCall, Arity
<1>2. FrameOK(Top)
  BY <1>1, TopParts
<1>3. Top.site \in Sites /\ SiteArgs[Top.site] \in Seq(DOMAIN Yields)
  BY <1>2, SitesAssumption DEF FrameOK, Frames
<1>4. Arity(Top.site) \in Nat
  BY <1>3, LenProperties DEF Arity
<1>5. Top.i \in 1..Arity(Top.site)
  BY <1>1, <1>2, <1>4 DEF FrameOK
<1>6. Expr \in DOMAIN Yields
  BY <1>3, <1>5, ElementOfSeq DEF Expr, Arity
<1> QED
  BY <1>1, <1>3, <1>5, <1>6, SitesAssumption DEF Args

LEMMA FrameType == \A s \in Sites : FrameOK(Frame(s)) /\ ~Inside(Frame(s))
<1> SUFFICES ASSUME NEW s \in Sites PROVE FrameOK(Frame(s)) /\ ~Inside(Frame(s))
  OBVIOUS
<1>1. SiteArgs[s] \in Seq(DOMAIN Yields)
  BY SitesAssumption
<1>2. Arity(s) \in Nat
  BY <1>1, LenProperties DEF Arity
<1> QED
  BY <1>2 DEF Frame, FrameOK, Frames, Places, Inside

LEMMA InitIInv == Init => IInv
<1> SUFFICES ASSUME Init PROVE IInv
  OBVIOUS
<1>1. Flags
  <2>1. backend \in BOOLEAN /\ on_worker \in BOOLEAN /\ slot \in BOOLEAN /\ borrowed \in BOOLEAN /\ locked \in BOOLEAN
    BY Zenon DEF Init
  <2>2. registered \in Nat /\ dropped \in Nat /\ made \in 0..MaxCalls
    BY SizeAssumption DEF Init
  <2> QED
    BY <2>1, <2>2 DEF Flags
<1>2. Queues
  BY DEF Init, Queues
<1>3. Stack /\ Borrowing /\ Reserved /\ Committed
  BY DEF Init, Stack, Borrowing, Reserved, Committed
<1> QED
  BY <1>1, <1>2, <1>3 DEF IInv

LEMMA IInvTypeOK == IInv => TypeOK
<1> SUFFICES ASSUME IInv PROVE TypeOK
  OBVIOUS
<1>1. {backend, on_worker, slot, borrowed, locked} \subseteq BOOLEAN
  BY Zenon DEF IInv, Flags
<1>2. {registered, dropped} \subseteq Nat /\ made \in 0..MaxCalls
  BY DEF IInv, Flags
<1>3. ASSUME NEW k \in DOMAIN stack
      PROVE  /\ stack[k].site \in Sites /\ stack[k].at \in {"sizing", "measure", "encode"}
             /\ stack[k].i \in 1..(Len(SiteArgs[stack[k].site]) + 1)
             /\ {stack[k].size, stack[k].off, stack[k].arg_size} \subseteq Nat
  <2>1. k \in 1..Len(stack)
    BY LenProperties DEF IInv, Stack
  <2>2. FrameOK(stack[k])
    BY <2>1 DEF IInv, Stack
  <2> QED
    BY <2>2 DEF FrameOK, Frames, Places, Arity
<1>4. area \in Seq(Byte \cup {Stale})
  <2>1. Cell = Byte \cup {Stale}
    BY BaseAssumption DEF Cell, Byte, Stale
  <2> QED
    BY <2>1 DEF IInv, Reserved
<1>5. \A k \in DOMAIN queue : Len(queue[k].bytes) = queue[k].size
  BY LenProperties DEF IInv, Committed
<1> QED
  BY <1>1, <1>2, <1>3, <1>4, <1>5 DEF TypeOK

-----------------------------------------------------------------------------
(* What the steps of a thread do to its stack                              *)

LEMMA SizeNat == \A a : WellFormed(a) => EncodedSize(a) \in Nat \ {0}
<1> SUFFICES ASSUME NEW a, WellFormed(a) PROVE EncodedSize(a) \in Nat \ {0}
  BY Zenon
<1>1. EncodeTo(a) \in Seq(Byte) /\ Len(EncodeTo(a)) = EncodedSize(a)
  BY WritesEncodedSize
<1>2. EncodedSize(a) \in Nat
  BY <1>1, LenProperties
<1>3. CASE a.type \in FixedTypes
  <2>1. Width[a.type] \in 1..16 /\ a.type # "Str" /\ a.type # "Custom"
    BY <1>3, WidthType, Zenon
  <2> QED
    BY <2>1 DEF EncodedSize
<1>4. CASE a.type = "Str" \/ a.type = "Custom"
  <2>1. PICK n \in Nat, p \in Nat : n = Len(a.body) /\ p = PtrSize
    BY ArgumentParts, PtrAssumption
  <2>2. EncodedSize(a) \in {1 + 4 + n, 1 + p + 4 + n}
    BY <1>4, <2>1 DEF EncodedSize, LenSize
  <2>3. 1 + 4 + n \in Nat \ {0} /\ 1 + p + 4 + n \in Nat \ {0}
    OBVIOUS
  <2> QED
    BY <2>2, <2>3, Zenon
<1> QED
  BY <1>2, <1>3, <1>4, ArgumentParts

LEMMA U32Positive == U32Values \in Nat \ {0}
<1>1. \A m \in Nat \ {0} : Base * m \in Nat \ {0}
  BY BaseAssumption
<1> QED
  BY <1>1, BaseAssumption DEF U32Values

LEMMA ReplacedKeeps ==
  ASSUME Stack, Borrowing, stack # <<>>, NEW f, FrameOK(f), Update(f),
         Inside(f) <=> Inside(Top), borrowed' = borrowed
  PROVE  Stack' /\ Borrowing' /\ Replaced(stack', stack, f)
<1>1. PICK n \in Nat \ {0} : n = Len(stack) /\ Top = stack[n]
  BY TopParts
<1>2. stack' \in Seq(Frames) /\ Replaced(stack', stack, f)
  BY UpdateReplaced DEF Update, FrameOK, Stack
<1>3. Len(stack') = n /\ (\A k \in 1..(n - 1) : stack'[k] = stack[k]) /\ stack'[n] = f
  BY <1>1, <1>2 DEF Replaced
<1>4. \A k \in 1..n : k = n \/ k \in 1..(n - 1)
  BY <1>1
<1>5. \A k \in 1..n : FrameOK(stack'[k]) /\ (Inside(stack'[k]) <=> Inside(stack[k]))
  BY <1>1, <1>3, <1>4 DEF Stack
<1>6. Stack'
  BY <1>2, <1>3, <1>5 DEF Stack
<1>7. Borrowing'
  BY <1>1, <1>3, <1>5 DEF Borrowing
<1> QED
  BY <1>2, <1>6, <1>7

LEMMA PushedKeeps ==
  ASSUME NEW s \in Seq(Frames), NEW t \in Seq(Frames), NEW f, FrameOK(f), ~Inside(f), Pushed(t, s, f),
         \A k \in 1..Len(s) : FrameOK(s[k])
  PROVE  /\ \A k \in 1..Len(t) : FrameOK(t[k])
         /\ \A k \in 1..Len(t) : Inside(t[k]) => k \in 1..Len(s)
         /\ \A k \in 1..Len(s) : k \in 1..Len(t) /\ t[k] = s[k]
<1>1. PICK n \in Nat : n = Len(s)
  BY LenProperties
<1>2. Len(t) = n + 1 /\ (\A k \in 1..n : t[k] = s[k]) /\ t[n + 1] = f
  BY <1>1 DEF Pushed
<1>3. \A k \in 1..(n + 1) : k = n + 1 \/ k \in 1..n
  OBVIOUS
<1>4. \A k \in 1..n : k \in 1..(n + 1)
  OBVIOUS
<1> QED
  BY <1>1, <1>2, <1>3, <1>4

LEMMA PoppedKeeps ==
  ASSUME Stack, Borrowing, stack # <<>>, stack' = Front(stack),
         borrowed' = (borrowed /\ ~Inside(Top))
  PROVE  Stack' /\ Borrowing' /\ Popped(stack', stack)
<1>1. PICK n \in Nat \ {0} : n = Len(stack) /\ Top = stack[n]
  BY TopParts
<1>2. stack' \in Seq(Frames) /\ Popped(stack', stack)
  BY TopParts
<1>3. Len(stack') = n - 1 /\ \A k \in 1..(n - 1) : stack'[k] = stack[k]
  BY <1>1, <1>2 DEF Popped
<1>4. (\A k \in 1..(n - 1) : k \in 1..n) /\ (\A k \in 1..n : k = n \/ k \in 1..(n - 1)) /\ n \notin 1..(n - 1) /\ n \in 1..n
  BY <1>1
<1>5. Stack'
  BY <1>1, <1>2, <1>3, <1>4 DEF Stack
<1>6. Borrowing'
  <2>1. \A j, k \in 1..(n - 1) : Inside(stack'[j]) /\ Inside(stack'[k]) => j = k
    BY <1>1, <1>3, <1>4 DEF Borrowing
  <2>2. CASE Inside(Top)
    <3>1. \A k \in 1..(n - 1) : ~Inside(stack[k])
      BY <1>1, <1>4, <2>2 DEF Borrowing
    <3> QED
      BY <1>3, <2>1, <2>2, <3>1 DEF Borrowing
  <2>3. CASE ~Inside(Top)
    <3>1. borrowed <=> \E k \in 1..(n - 1) : Inside(stack[k])
      BY <1>1, <1>4, <2>3 DEF Borrowing
    <3>2. borrowed' <=> \E k \in 1..(n - 1) : Inside(stack'[k])
      BY <1>3, <2>3, <3>1
    <3> QED
      BY <1>3, <2>1, <3>2 DEF Borrowing
  <2> QED
    BY <2>2, <2>3
<1> QED
  BY <1>2, <1>5, <1>6

\* The frames the actions put on the stack.
LEMMA NextFrames ==
  ASSUME Stack
  PROVE  /\ \A a : AtArgument("sizing") /\ a \in Yields[Expr] =>
              LET f == [Top EXCEPT !.size = @ + EncodedSize(a), !.i = @ + 1, !.ran = FALSE]
              IN FrameOK(f) /\ ~Inside(f)
         /\ AtEnd("sizing") =>
              LET f == [Top EXCEPT !.at = "measure", !.i = 1, !.size = ArgsSize]
              IN FrameOK(f) /\ Inside(f)
         /\ \A a : AtArgument("measure") /\ a \in Yields[Expr] =>
              LET f == [Top EXCEPT !.at = "encode", !.arg_size = EncodedSize(a), !.ran = FALSE]
              IN FrameOK(f) /\ Inside(f) /\ f.size = Top.size
         /\ \A a : AtArgument("encode") /\ a \in Yields[Expr] =>
              LET f == [Top EXCEPT !.at = "measure", !.off = @ + Top.arg_size, !.i = @ + 1,
                                   !.ran = FALSE, !.said = Append(@, a)]
              IN FrameOK(f) /\ Inside(f) /\ f.size = Top.size
         /\ \A at : AtArgument(at) => FrameOK([Top EXCEPT !.ran = TRUE])
<1>0. ASSUME stack # <<>>
      PROVE  FrameOK(Top) /\ Top \in Frames /\ Arity(Top.site) \in Nat
  <2>1. FrameOK(Top) /\ Top \in Frames
    BY <1>0, TopParts DEF FrameOK
  <2>2. SiteArgs[Top.site] \in Seq(DOMAIN Yields)
    BY <2>1, SitesAssumption DEF Frames
  <2> QED
    BY <2>1, <2>2, LenProperties DEF Arity
<1>1. ASSUME NEW a, AtArgument("sizing"), a \in Yields[Expr]
      PROVE  LET f == [Top EXCEPT !.size = @ + EncodedSize(a), !.i = @ + 1, !.ran = FALSE]
             IN FrameOK(f) /\ ~Inside(f)
  <2>1. stack # <<>> /\ Top.at = "sizing" /\ Top.i \in 1..Arity(Top.site) /\ WellFormed(a)
    BY <1>1, ExprParts
  <2>2. Top \in Frames /\ Arity(Top.site) \in Nat /\ EncodedSize(a) \in Nat
    BY <1>0, <2>1, SizeNat
  <2>3. PICK size \in Nat, i \in Nat : size = Top.size + EncodedSize(a) /\ i = Top.i + 1 /\ i \in 1..(Arity(Top.site) + 1)
    BY <2>1, <2>2 DEF Frames
  <2>8. PICK f : f = [Top EXCEPT !.size = size, !.i = i, !.ran = FALSE]
    OBVIOUS
  <2>9. f \in Frames
    BY <2>1, <2>2, <2>3, <2>8 DEF Frames, Places
  <2>10. f.site = Top.site /\ f.at = "sizing" /\ f.i = i
    BY <2>1, <2>2, <2>3, <2>8 DEF Frames
  <2>11. FrameOK(f)
    BY <2>1, <2>2, <2>3, <2>9, <2>10 DEF FrameOK
  <2> QED
    BY <2>3, <2>8, <2>10, <2>11 DEF Inside
<1>2. ASSUME AtEnd("sizing")
      PROVE  LET f == [Top EXCEPT !.at = "measure", !.i = 1, !.size = ArgsSize] IN FrameOK(f) /\ Inside(f)
  <2>1. stack # <<>>
    BY <1>2 DEF AtEnd, InCall
  <2>2. Top \in Frames /\ Arity(Top.site) \in Nat
    BY <1>0, <2>1
  <2>3. ArgsSize \in Nat
    <3>1. Top.size \in Nat
      BY <2>2 DEF Frames
    <3> QED
      BY <3>1, U32Positive DEF ArgsSize
  <2>8. PICK f : f = [Top EXCEPT !.at = "measure", !.i = 1, !.size = ArgsSize]
    OBVIOUS
  <2>9. f \in Frames
    BY <2>2, <2>3, <2>8 DEF Frames, Places
  <2>10. f.site = Top.site /\ f.at = "measure" /\ f.i = 1
    BY <2>2, <2>3, <2>8 DEF Frames
  <2>11. FrameOK(f)
    BY <2>1, <2>2, <2>3, <2>9, <2>10 DEF FrameOK
  <2> QED
    BY <2>8, <2>10, <2>11 DEF Inside
<1>3. ASSUME NEW a, AtArgument("measure"), a \in Yields[Expr]
      PROVE  LET f == [Top EXCEPT !.at = "encode", !.arg_size = EncodedSize(a), !.ran = FALSE]
             IN FrameOK(f) /\ Inside(f) /\ f.size = Top.size
  <2>1. stack # <<>> /\ Top.i \in 1..Arity(Top.site) /\ WellFormed(a)
    BY <1>3, ExprParts
  <2>2. Top \in Frames /\ Arity(Top.site) \in Nat /\ EncodedSize(a) \in Nat
    BY <1>0, <2>1, SizeNat
  <2>8. PICK f : f = [Top EXCEPT !.at = "encode", !.arg_size = EncodedSize(a), !.ran = FALSE]
    OBVIOUS
  <2>9. f \in Frames
    BY <2>1, <2>2, <2>8 DEF Frames, Places
  <2>10. f.site = Top.site /\ f.at = "encode" /\ f.i = Top.i /\ f.size = Top.size
    BY <2>1, <2>2, <2>8 DEF Frames
  <2>11. FrameOK(f)
    BY <2>1, <2>2, <2>9, <2>10 DEF FrameOK
  <2> QED
    BY <2>8, <2>10, <2>11 DEF Inside
<1>4. ASSUME NEW a, AtArgument("encode"), a \in Yields[Expr]
      PROVE  LET f == [Top EXCEPT !.at = "measure", !.off = @ + Top.arg_size, !.i = @ + 1,
                                  !.ran = FALSE, !.said = Append(@, a)]
             IN FrameOK(f) /\ Inside(f) /\ f.size = Top.size
  <2>1. stack # <<>> /\ Top.i \in 1..Arity(Top.site) /\ a \in Args
    BY <1>4, ExprParts
  <2>2. Top \in Frames /\ Arity(Top.site) \in Nat
    BY <1>0, <2>1
  <2>3. PICK said \in Seq(Args) : said = Append(Top.said, a)
    <3>1. Top.said \in Seq(Args)
      BY <2>2 DEF Frames
    <3> QED
      BY <2>1, <3>1, AppendProperties
  <2>4. PICK off \in Nat, i \in Nat : off = Top.off + Top.arg_size /\ i = Top.i + 1 /\ i \in 1..(Arity(Top.site) + 1)
    BY <2>1, <2>2 DEF Frames
  <2>8. PICK f : f = [Top EXCEPT !.at = "measure", !.off = off, !.i = i, !.ran = FALSE, !.said = said]
    OBVIOUS
  <2>9. f \in Frames
    BY <2>2, <2>3, <2>4, <2>8 DEF Frames, Places
  <2>10. f.site = Top.site /\ f.at = "measure" /\ f.i = i /\ f.size = Top.size
    BY <2>2, <2>3, <2>4, <2>8 DEF Frames
  <2>11. FrameOK(f)
    BY <2>1, <2>2, <2>3, <2>4, <2>9, <2>10 DEF FrameOK
  <2> QED
    BY <2>3, <2>4, <2>8, <2>10, <2>11 DEF Inside
<1>5. ASSUME NEW at, AtArgument(at) PROVE FrameOK([Top EXCEPT !.ran = TRUE])
  <2>1. stack # <<>>
    BY <1>5, ExprParts
  <2> QED
    BY <1>0, <2>1 DEF FrameOK, Frames
<1> QED
  BY <1>1, <1>2, <1>3, <1>4, <1>5

\* Inside means the same after a step that leaves the reservation alone.
LEMMA ReservedKeeps ==
  ASSUME Stack, Borrowing, Reserved, stack # <<>>, NEW f, Replaced(stack', stack, f),
         Inside(f) => Inside(Top) /\ f.size = Top.size,
         area' \in Seq(Cell), Len(area') = Len(area)
  PROVE  Reserved'
<1>1. PICK n \in Nat \ {0} : n = Len(stack) /\ Top = stack[n]
  BY TopParts
<1>2. Len(stack') = n /\ (\A k \in 1..(n - 1) : stack'[k] = stack[k]) /\ stack'[n] = f
  BY <1>1 DEF Replaced
<1>3. (\A k \in 1..n : k = n \/ k \in 1..(n - 1)) /\ n \in 1..n
  BY <1>1
<1>4. \A k \in 1..n : Inside(stack[k]) => Len(area) = stack[k].size
  BY <1>1 DEF Reserved
<1>5. \A k \in 1..n : Inside(stack'[k]) => Len(area) = stack'[k].size
  BY <1>1, <1>2, <1>3, <1>4
<1> QED
  BY <1>2, <1>5 DEF Reserved

\* encode_to changes bytes of the reservation, never its length.
LEMMA EncodeKeepsLength ==
  ASSUME Reserved, Stack, NEW a, AtArgument("encode"), a \in Yields[Expr], NEW off,
         area' = [k \in DOMAIN area |-> IF k - off \in DOMAIN EncodeTo(a) THEN EncodeTo(a)[k - off] ELSE area[k]]
  PROVE  area' \in Seq(Cell) /\ Len(area') = Len(area)
<1>1. PICK bytes \in Seq(Cell) : bytes = EncodeTo(a)
  <2>1. WellFormed(a)
    BY ExprParts
  <2> QED
    BY <2>1, WritesEncodedSize, BytesAreCells
<1>2. PICK n \in Nat : n = Len(area) /\ DOMAIN area = 1..n /\ \A k \in 1..n : area[k] \in Cell
  BY LenProperties, ElementOfSeq DEF Reserved
<1>3. \A k \in DOMAIN bytes : bytes[k] \in Cell
  BY LenProperties, ElementOfSeq
<1>4. area' \in [1..n -> Cell]
  BY <1>1, <1>2, <1>3
<1> QED
  BY <1>2, <1>4

LEMMA StepStack == IInv /\ [Next]_vars => Stack' /\ Borrowing' /\ Reserved'
<1> SUFFICES ASSUME IInv, [Next]_vars PROVE Stack' /\ Borrowing' /\ Reserved'
  OBVIOUS
<1>0. Stack /\ Borrowing /\ Reserved
  BY DEF IInv
<1>1. CASE UNCHANGED <<stack, borrowed, area>>
  BY <1>0, <1>1 DEF Stack, Borrowing, Reserved
<1>2. CASE stack' = <<>> /\ borrowed' = FALSE /\ area' = area
  BY <1>0, <1>2 DEF Stack, Borrowing, Reserved
<1>3. ASSUME NEW s \in Sites, Call(s) PROVE Stack' /\ Borrowing' /\ Reserved'
  <2>1. CASE ~Emits(s)
    BY <1>0, <1>1, <1>3, <2>1 DEF Call
  <2>2. CASE Emits(s)
    <3>1. PICK f \in Frames : f = Frame(s) /\ FrameOK(f) /\ ~Inside(f)
      BY FrameType DEF FrameOK
    <3>2. stack' = <<f>> /\ stack = <<>> /\ borrowed' = borrowed /\ area' = area
      BY <1>3, <2>2, <3>1 DEF Call
    <3>3. stack' \in Seq(Frames) /\ Len(stack') = 1 /\ stack'[1] = f
      BY <3>2
    <3>4. ~borrowed
      BY <1>0, <3>2 DEF Borrowing
    <3> QED
      BY <1>0, <3>1, <3>2, <3>3, <3>4 DEF Stack, Borrowing, Reserved
  <2> QED
    BY <2>1, <2>2
<1>4. CASE CallInArgument
  <2>1. PICK at \in Places : AtArgument(at)
    BY <1>4 DEF CallInArgument, Places
  <2>2. stack # <<>> /\ Calls[Expr] \in Sites
    BY <1>0, <1>4, <2>1, ExprParts DEF CallInArgument
  <2>3. PICK g \in Frames : g = [Top EXCEPT !.ran = TRUE] /\ FrameOK(g) /\ g.at = Top.at /\ g.size = Top.size
    <3>1. FrameOK([Top EXCEPT !.ran = TRUE]) /\ Top \in Frames
      BY <1>0, <2>1, <2>2, NextFrames, TopParts DEF FrameOK
    <3> QED
      BY <3>1 DEF FrameOK, Frames
  <2>4. PICK outer \in Seq(Frames) : outer = Append(Front(stack), g) /\ Replaced(outer, stack, g)
    BY <1>0, <2>2, UpdateReplaced DEF Stack
  <2>5. PICK n \in Nat \ {0} : n = Len(stack) /\ Top = stack[n]
    BY <1>0, <2>2, TopParts
  <2>6. /\ Len(outer) = n /\ \A k \in 1..n : FrameOK(outer[k]) /\ outer[k].at = stack[k].at /\ outer[k].size = stack[k].size
    <3>1. Len(outer) = n /\ (\A k \in 1..(n - 1) : outer[k] = stack[k]) /\ outer[n] = g
      BY <2>4, <2>5 DEF Replaced
    <3>2. \A k \in 1..n : k = n \/ k \in 1..(n - 1)
      BY <2>5
    <3> QED
      BY <1>0, <2>3, <2>5, <3>1, <3>2 DEF Stack
  <2>7. borrowed' = borrowed /\ area' = area
    BY <1>4 DEF CallInArgument
  <2>8. CASE stack' = outer
    BY <1>0, <2>5, <2>6, <2>7, <2>8 DEF Stack, Borrowing, Reserved, Inside
  <2>9. CASE stack' = Append(outer, Frame(Calls[Expr]))
    <3>1. PICK f \in Frames : f = Frame(Calls[Expr]) /\ FrameOK(f) /\ ~Inside(f)
      BY <2>2, FrameType DEF FrameOK
    <3>2. stack' \in Seq(Frames) /\ Pushed(stack', outer, f)
      BY <2>9, <3>1, AppendPushed
    <3>3. /\ \A k \in 1..Len(stack') : FrameOK(stack'[k])
          /\ \A k \in 1..Len(stack') : Inside(stack'[k]) => k \in 1..n
          /\ \A k \in 1..n : k \in 1..Len(stack') /\ stack'[k] = outer[k]
      BY <2>6, <3>1, <3>2, PushedKeeps
    <3>4. Stack'
      BY <3>2, <3>3 DEF Stack
    <3>5. \A k \in 1..n : Inside(stack'[k]) <=> Inside(stack[k])
      BY <2>6, <3>3 DEF Inside
    <3>6. Borrowing'
      BY <1>0, <2>5, <2>7, <3>3, <3>5 DEF Borrowing
    <3>7. Reserved'
      BY <1>0, <2>5, <2>6, <2>7, <3>3, <3>5 DEF Reserved
    <3> QED
      BY <3>4, <3>6, <3>7
  <2> QED
    BY <1>4, <2>3, <2>4, <2>8, <2>9 DEF CallInArgument
<1>5. CASE AddSize
  <2>1. PICK a \in Yields[Expr] : Update([Top EXCEPT !.size = @ + EncodedSize(a), !.i = @ + 1, !.ran = FALSE])
    BY <1>5 DEF AddSize
  <2>2. AtArgument("sizing") /\ borrowed' = borrowed /\ area' = area
    BY <1>5 DEF AddSize, Evaluates
  <2>3. PICK f : f = [Top EXCEPT !.size = @ + EncodedSize(a), !.i = @ + 1, !.ran = FALSE]
    OBVIOUS
  <2>4. FrameOK(f) /\ ~Inside(f)
    BY <1>0, <2>1, <2>2, <2>3, NextFrames
  <2>5. stack # <<>> /\ ~Inside(Top)
    BY <1>0, <2>2, ExprParts DEF Inside
  <2>6. Stack' /\ Borrowing' /\ Replaced(stack', stack, f)
    BY <1>0, <2>1, <2>2, <2>3, <2>4, <2>5, ReplacedKeeps
  <2> QED
    BY <1>0, <2>2, <2>4, <2>5, <2>6, ReservedKeeps DEF Reserved
<1>6. CASE MeasureArg
  <2>1. PICK a \in Yields[Expr] : Update([Top EXCEPT !.at = "encode", !.arg_size = EncodedSize(a), !.ran = FALSE])
    BY <1>6 DEF MeasureArg
  <2>2. AtArgument("measure") /\ borrowed' = borrowed /\ area' = area
    BY <1>6 DEF MeasureArg, Evaluates
  <2>3. PICK f : f = [Top EXCEPT !.at = "encode", !.arg_size = EncodedSize(a), !.ran = FALSE]
    OBVIOUS
  <2>4. FrameOK(f) /\ Inside(f) /\ f.size = Top.size
    BY <1>0, <2>1, <2>2, <2>3, NextFrames
  <2>5. stack # <<>> /\ Inside(Top)
    BY <1>0, <2>2, ExprParts DEF Inside
  <2>6. Stack' /\ Borrowing' /\ Replaced(stack', stack, f)
    BY <1>0, <2>1, <2>2, <2>3, <2>4, <2>5, ReplacedKeeps
  <2> QED
    BY <1>0, <2>2, <2>4, <2>5, <2>6, ReservedKeeps DEF Reserved
<1>7. CASE EncodeArg
  <2>1. PICK a \in Yields[Expr] :
          /\ area' = [k \in DOMAIN area |-> IF k - Top.off \in DOMAIN EncodeTo(a) THEN EncodeTo(a)[k - Top.off] ELSE area[k]]
          /\ Update([Top EXCEPT !.at = "measure", !.off = @ + Top.arg_size, !.i = @ + 1,
                                !.ran = FALSE, !.said = Append(@, a)])
    BY <1>7 DEF EncodeArg
  <2>2. AtArgument("encode") /\ borrowed' = borrowed
    BY <1>7 DEF EncodeArg, Evaluates
  <2>3. PICK f : f = [Top EXCEPT !.at = "measure", !.off = @ + Top.arg_size, !.i = @ + 1,
                                 !.ran = FALSE, !.said = Append(@, a)]
    OBVIOUS
  <2>4. FrameOK(f) /\ Inside(f) /\ f.size = Top.size
    BY <1>0, <2>1, <2>2, <2>3, NextFrames
  <2>5. stack # <<>> /\ Inside(Top)
    BY <1>0, <2>2, ExprParts DEF Inside
  <2>6. Stack' /\ Borrowing' /\ Replaced(stack', stack, f)
    BY <1>0, <2>1, <2>2, <2>3, <2>4, <2>5, ReplacedKeeps
  <2>7. area' \in Seq(Cell) /\ Len(area') = Len(area)
    BY <1>0, <2>1, <2>2, EncodeKeepsLength
  <2> QED
    BY <1>0, <2>4, <2>5, <2>6, <2>7, ReservedKeeps
<1>8. CASE EnterFull
  <2>1. stack # <<>> /\ Top.at = "sizing" /\ stack' = Front(stack) /\ borrowed' = borrowed /\ area' = area
    BY <1>8 DEF EnterFull, FullGivesUp, AtEnd, InCall
  <2>2. borrowed' = (borrowed /\ ~Inside(Top))
    BY <1>0, <2>1 DEF Inside, IInv, Flags
  <2>3. Stack' /\ Borrowing' /\ Popped(stack', stack)
    BY <1>0, <2>1, <2>2, PoppedKeeps
  <2>4. Reserved'
    BY <1>0, <2>1, <2>3, TopParts DEF Reserved, Popped
  <2> QED
    BY <2>3, <2>4
<1>9. CASE Commit
  <2>1. stack # <<>> /\ Top.at = "measure" /\ stack' = Front(stack) /\ borrowed' = FALSE /\ area' = area
    BY <1>9 DEF Commit, AtEnd, InCall
  <2>2. borrowed' = (borrowed /\ ~Inside(Top))
    BY <2>1 DEF Inside
  <2>3. Stack' /\ Borrowing' /\ Popped(stack', stack)
    BY <1>0, <2>1, <2>2, PoppedKeeps
  <2>4. Reserved'
    BY <1>0, <2>1, <2>3, TopParts DEF Reserved, Popped
  <2> QED
    BY <2>3, <2>4
<1>10. CASE EnterWrite
  <2>1. /\ AtEnd("sizing") /\ ~borrowed /\ borrowed' = TRUE /\ stack # <<>>
        /\ area' = [k \in 1..ArgsSize |-> Stale]
        /\ Update([Top EXCEPT !.at = "measure", !.i = 1, !.size = ArgsSize])
    BY <1>10 DEF EnterWrite, Ensure, EnsureFails, Borrows, AtEnd, InCall
  <2>2. PICK f : f = [Top EXCEPT !.at = "measure", !.i = 1, !.size = ArgsSize]
    OBVIOUS
  <2>3. FrameOK(f) /\ Inside(f)
    BY <1>0, <2>1, <2>2, NextFrames
  <2>4. PICK n \in Nat \ {0} : n = Len(stack) /\ Top = stack[n] /\ FrameOK(Top)
    BY <1>0, <2>1, TopParts
  <2>5. f.size = ArgsSize /\ ArgsSize \in Nat
    BY <2>2, <2>3, <2>4 DEF FrameOK, Frames
  <2>6. stack' \in Seq(Frames) /\ Replaced(stack', stack, f)
    BY <1>0, <2>1, <2>2, <2>3, UpdateReplaced DEF Update, FrameOK, Stack
  <2>7. Len(stack') = n /\ (\A k \in 1..(n - 1) : stack'[k] = stack[k]) /\ stack'[n] = f
    BY <2>4, <2>6 DEF Replaced
  <2>8. (\A k \in 1..n : k = n \/ k \in 1..(n - 1)) /\ n \in 1..n
    BY <2>4
  <2>9. Stack'
    BY <1>0, <2>3, <2>4, <2>6, <2>7, <2>8 DEF Stack
  <2>10. \A k \in 1..n : Inside(stack'[k]) <=> k = n
    BY <1>0, <2>1, <2>3, <2>4, <2>7, <2>8 DEF Borrowing
  <2>11. Borrowing'
    BY <2>1, <2>7, <2>8, <2>10 DEF Borrowing
  <2>12. area' \in Seq(Cell) /\ Len(area') = ArgsSize
    <3>1. Stale \in Cell
      BY BaseAssumption DEF Stale, Cell
    <3>2. area' \in [1..ArgsSize -> Cell]
      BY <2>1, <3>1
    <3> QED
      BY <2>5, <3>2
  <2>13. Reserved'
    BY <2>5, <2>7, <2>10, <2>12 DEF Reserved
  <2> QED
    BY <2>9, <2>11, <2>13
<1>11. CASE Preallocate \/ Start \/ DecodeArg \/ DecodeFails \/ DecodeEnd \/ OthersLock \/ OthersUnlock
  BY <1>1, <1>11 DEF Preallocate, Start, DecodeArg, DecodeFails, DecodeEnd, OthersLock, OthersUnlock, threadVars
<1>12. CASE EnterPanics \/ ArgumentPanics
  BY <1>2, <1>12 DEF EnterPanics, ArgumentPanics, Unwind
<1> QED
  BY <1>1, <1>3, <1>4, <1>5, <1>6, <1>7, <1>8, <1>9, <1>10, <1>11, <1>12 DEF Next, InsideCall, Worker, vars

LEMMA StepFlags == IInv /\ [Next]_vars => Flags' /\ Queues'
<1> SUFFICES ASSUME IInv, [Next]_vars PROVE Flags' /\ Queues'
  OBVIOUS
<1>0. Flags /\ Queues
  BY DEF IInv
<1>1. ASSUME UNCHANGED <<slot, registered>> PROVE Queues'
  <2>1. on_worker' = on_worker
    BY DEF Next, InsideCall, Worker, OthersLock, OthersUnlock, vars, threadVars, Start, Preallocate, Call, CallInArgument, AddSize, EnterPanics,
       EnterWrite, EnterFull, MeasureArg, EncodeArg, Commit, ArgumentPanics, DecodeArg, DecodeFails, DecodeEnd
  <2> QED
    <3>1. (on_worker' <=> on_worker) /\ (slot' <=> slot) /\ registered' = registered
      BY <1>1, <2>1
    <3>2. (slot => registered = 1) /\ (~slot => registered = 0) /\ (on_worker => ~slot)
      BY <1>0 DEF Queues
    <3> QED
      BY <3>1, <3>2 DEF Queues
<1>2. ASSUME Ensure, on_worker' = on_worker PROVE Queues'
  <2>1. CASE slot
    <3>1. slot' = TRUE /\ registered' = registered /\ registered = 1 /\ ~on_worker
      BY <1>0, <1>2, <2>1, Zenon DEF Queues, Ensure, Registers
    <3> QED
      <4>1. slot' /\ registered' = 1 /\ ~on_worker'
        BY <1>2, <3>1
      <4> QED
        BY <4>1 DEF Queues
  <2>2. CASE ~slot
    <3>1. slot' = TRUE /\ registered' = registered + 1 /\ registered = 0 /\ ~on_worker
      BY <1>0, <1>2, <2>2, Zenon DEF Queues, Ensure, EnsureFails, MayRegister, Registers
    <3>2. registered' = 1
      BY <3>1
    <3> QED
      <4>1. slot' /\ registered' = 1 /\ ~on_worker'
        BY <1>2, <3>1, <3>2
      <4> QED
        BY <4>1 DEF Queues
  <2> QED
    BY <2>1, <2>2
<1>3. Queues'
  BY <1>1, <1>2 DEF Next, InsideCall, Worker, OthersLock, OthersUnlock, vars, threadVars, Start, Preallocate, Call, CallInArgument, AddSize,
     EnterPanics, EnterWrite, EnterFull, FullGivesUp, MeasureArg, EncodeArg, Commit, ArgumentPanics, DecodeArg,
     DecodeFails, DecodeEnd
<1>4. backend' \in BOOLEAN /\ on_worker' \in BOOLEAN
  <2>1. (backend' = backend \/ backend' = TRUE) /\ on_worker' = on_worker
    BY DEF Next, InsideCall, Worker, OthersLock, OthersUnlock, vars, threadVars, Start, Preallocate, Call, CallInArgument, AddSize, EnterPanics,
       EnterWrite, EnterFull, MeasureArg, EncodeArg, Commit, ArgumentPanics, DecodeArg, DecodeFails, DecodeEnd
  <2> QED
    BY <1>0, <2>1, Zenon DEF Flags
<1>5. slot' \in BOOLEAN /\ borrowed' \in BOOLEAN /\ locked' \in BOOLEAN
  <2>1. slot' = slot \/ slot' = TRUE
    BY DEF Next, InsideCall, Worker, OthersLock, OthersUnlock, vars, threadVars, Start, Preallocate, Call, CallInArgument, AddSize, EnterPanics,
       EnterWrite, EnterFull, FullGivesUp, Ensure, MeasureArg, EncodeArg, Commit, ArgumentPanics, DecodeArg, DecodeFails, DecodeEnd
  <2>2. borrowed' = borrowed \/ borrowed' = TRUE \/ borrowed' = FALSE
    BY DEF Next, InsideCall, Worker, OthersLock, OthersUnlock, vars, threadVars, Start, Preallocate, Call, CallInArgument, AddSize, EnterPanics,
       EnterWrite, EnterFull, Unwind, MeasureArg, EncodeArg, Commit, ArgumentPanics, DecodeArg, DecodeFails, DecodeEnd
  <2>3. locked' = locked \/ locked' = TRUE \/ locked' = FALSE
    BY DEF Next, InsideCall, Worker, OthersLock, OthersUnlock, vars, threadVars, Start, Preallocate, Call, CallInArgument, AddSize,
       EnterPanics, EnterWrite, EnterFull, MeasureArg, EncodeArg, Commit, ArgumentPanics, DecodeArg, DecodeFails, DecodeEnd
  <2> QED
    BY <1>0, <2>1, <2>2, <2>3, Zenon DEF Flags
<1>6. registered' \in Nat
  BY <1>3 DEF Queues
<1>7. dropped' \in Nat /\ made' \in 0..MaxCalls
  <2>1. dropped' = dropped \/ dropped' = dropped + 1
    BY DEF Next, InsideCall, Worker, OthersLock, OthersUnlock, vars, threadVars, Start, Preallocate, Call, CallInArgument, AddSize, EnterPanics,
       EnterWrite, EnterFull, FullGivesUp, MeasureArg, EncodeArg, Commit, ArgumentPanics, DecodeArg, DecodeFails, DecodeEnd
  <2>2. made' = made \/ (made < MaxCalls /\ made' = made + 1)
    BY DEF Next, InsideCall, Worker, OthersLock, OthersUnlock, vars, threadVars, Start, Preallocate, Call, CallInArgument, AddSize, EnterPanics,
       EnterWrite, EnterFull, MeasureArg, EncodeArg, Commit, ArgumentPanics, DecodeArg, DecodeFails, DecodeEnd
  <2> QED
    BY <1>0, <2>1, <2>2, SizeAssumption DEF Flags
<1> QED
  BY <1>3, <1>4, <1>5, <1>6, <1>7 DEF Flags

\* A committed record has as many bytes as its header says.
LEMMA StepCommitted == IInv /\ [Next]_vars => Committed'
<1> SUFFICES ASSUME IInv, [Next]_vars PROVE Committed'
  OBVIOUS
<1>0. Committed /\ Stack /\ Borrowing /\ Reserved
  BY DEF IInv
<1>1. CASE queue' = queue
  BY <1>0, <1>1 DEF Committed
<1>2. CASE queue # <<>> /\ queue' = Tail(queue)
  <2>1. /\ Tail(queue) \in Seq(Records) /\ Len(Tail(queue)) = Len(queue) - 1 /\ Len(queue) \in Nat
        /\ \A k \in 1..Len(Tail(queue)) : Tail(queue)[k] = queue[k + 1]
    BY <1>0, <1>2, HeadTailProperties, LenProperties DEF Committed
  <2>2. \A k \in 1..(Len(queue) - 1) : k + 1 \in 1..Len(queue)
    BY <2>1
  <2> QED
    BY <1>0, <1>2, <2>1, <2>2 DEF Committed
<1>3. CASE Commit
  <2>1. stack # <<>> /\ Top.at = "measure"
    BY <1>3 DEF Commit, AtEnd, InCall
  <2>2. PICK n \in Nat \ {0} : n = Len(stack) /\ Top = stack[n] /\ Top \in Frames
    BY <1>0, <2>1, TopParts DEF FrameOK
  <2>3. Len(area) = Top.size /\ area \in Seq(Cell)
    <3>1. n \in 1..Len(stack) /\ Inside(stack[n])
      BY <2>1, <2>2 DEF Inside
    <3> QED
      BY <1>0, <2>2, <3>1 DEF Reserved
  <2>4. PICK r \in Records : r = Record /\ Len(r.bytes) = r.size
    <3>1. Record \in Records
      BY <2>2, <2>3 DEF Record, Records, Frames
    <3>2. Len(Record.bytes) = Record.size
      BY <2>3 DEF Record
    <3> QED
      BY <3>1, <3>2
  <2>5. queue' = Append(queue, r)
    BY <1>3, <2>4 DEF Commit
  <2>6. queue' \in Seq(Records) /\ Pushed(queue', queue, r)
    BY <1>0, <2>5, AppendPushed DEF Committed
  <2>7. PICK m \in Nat : m = Len(queue)
    BY <1>0, LenProperties DEF Committed
  <2>8. \A k \in 1..(m + 1) : k \in 1..m \/ k = m + 1
    OBVIOUS
  <2> QED
    BY <1>0, <2>4, <2>6, <2>7, <2>8 DEF Committed, Pushed
<1> QED
  BY <1>1, <1>2, <1>3 DEF Next, InsideCall, Worker, OthersLock, OthersUnlock, vars, threadVars, Start, Preallocate, Call, CallInArgument, AddSize,
     EnterPanics, EnterWrite, EnterFull, MeasureArg, EncodeArg, ArgumentPanics, DecodeArg, DecodeFails, DecodeEnd

LEMMA StepIInv == IInv /\ [Next]_vars => IInv'
BY StepFlags, StepStack, StepCommitted DEF IInv

LEMMA Invariance == Spec => []IInv
BY InitIInv, StepIInv, PTL DEF Spec

-----------------------------------------------------------------------------
(* Theorems that hold whatever the arguments return                        *)

\* Every variable keeps its type at any depth of nesting; a committed record's
\* header gives the size of the bytes behind it.
THEOREM TypeCorrect == Spec => []TypeOK
BY Invariance, IInvTypeOK, PTL

\* A thread never gets a second queue, and the worker thread never gets one,
\* whatever calls nest, fail or panic around ensure_producer_registered.
THEOREM OneQueuePerThread == Spec => []OneQueue
<1>1. IInv => OneQueue
  BY DEF IInv, Queues, OneQueue
<1> QED
  BY <1>1, Invariance, PTL

\* TL_PRODUCER is borrowed exactly while one call of the thread is inside write:
\* no nested call gets it a second time and no panic leaves it borrowed.
THEOREM BorrowAlwaysMatches == Spec => []BorrowMatchesStack
<1>1. IInv => BorrowMatchesStack
  <2> SUFFICES ASSUME IInv PROVE BorrowMatchesStack
    OBVIOUS
  <2>1. DOMAIN stack = 1..Len(stack)
    BY LenProperties DEF IInv, Stack
  <2>2. /\ borrowed <=> \E k \in DOMAIN stack : stack[k].at # "sizing"
        /\ \A j, k \in DOMAIN stack : stack[j].at # "sizing" /\ stack[k].at # "sizing" => j = k
    BY <2>1 DEF IInv, Borrowing, Inside
  <2> QED
    BY <2>2, Zenon DEF BorrowMatchesStack
<1> QED
  BY <1>1, Invariance, PTL

-----------------------------------------------------------------------------
(* Arguments of stable size: Layout (LogCall) gives their places           *)

\* The locals of __log! follow the layout.
Laid(Ends, f) ==
  IF f.at = "sizing" THEN f.size = Ends[f.site][f.i] /\ f.off = 0 /\ f.said = <<>>
  ELSE /\ f.size = Ends[f.site][Arity(f.site) + 1] /\ f.off = Ends[f.site][f.i]
       /\ Len(f.said) = f.i - 1
       /\ \A k \in 1..(f.i - 1) : f.said[k] \in Yields[SiteArgs[f.site][k]]
       /\ f.at = "encode" => f.arg_size = Ends[f.site][f.i + 1] - Ends[f.site][f.i]

\* The first m arguments of said lie in bytes where the layout puts them.
Holds(Ends, s, said, m, bytes) ==
  \A k \in 1..m : \A j \in 1..EncodedSize(said[k]) : bytes[Ends[s][k] + j] = EncodeTo(said[k])[j]

Laying(Ends) ==
  \A k \in 1..Len(stack) :
    /\ Laid(Ends, stack[k])
    /\ Inside(stack[k]) => Holds(Ends, stack[k].site, stack[k].said, stack[k].i - 1, area)

\* A committed record holds every argument of its site.
Whole(Ends, r) ==
  /\ r.size = Ends[r.site][Arity(r.site) + 1] /\ Len(r.said) = Arity(r.site)
  /\ \A k \in 1..Arity(r.site) : r.said[k] \in Yields[SiteArgs[r.site][k]]
  /\ Holds(Ends, r.site, r.said, Arity(r.site), r.bytes)
Wholes(Ends) == \A k \in 1..Len(queue) : Whole(Ends, queue[k])

\* The decode loop is between two arguments of the oldest record.
Meanings == {Meaning(a) : a \in Args}
Reading(Ends) ==
  /\ reader \in [offset : Nat, args : Seq(Meanings)]
  /\ queue = <<>> => reader = NoArgs
  /\ queue # <<>> =>
       /\ Len(reader.args) \in 0..Arity(Oldest.site)
       /\ reader.offset = Ends[Oldest.site][Len(reader.args) + 1]
       /\ \A k \in 1..Len(reader.args) : reader.args[k] = Meaning(Oldest.said[k])

LInv(Ends) == Laying(Ends) /\ Wholes(Ends) /\ Reading(Ends) /\ RoundTrip

LEMMA LayoutParts ==
  ASSUME NEW Ends, Layout(Ends), NEW s \in Sites
  PROVE  /\ Arity(s) \in Nat /\ \A k \in 1..(Arity(s) + 1) : Ends[s][k] \in Nat
         /\ Ends[s][1] = 0 /\ Ends[s][Arity(s) + 1] < U32Values
         /\ \A j, k \in 1..(Arity(s) + 1) : j < k => Ends[s][j] < Ends[s][k]
         /\ \A j, k \in 1..(Arity(s) + 1) : j <= k => Ends[s][j] <= Ends[s][k]
         /\ \A k \in 1..Arity(s) : \A a \in Yields[SiteArgs[s][k]] :
              /\ Ends[s][k + 1] = Ends[s][k] + EncodedSize(a)
              /\ a \in Args /\ WellFormed(a)
<1>1. Arity(s) \in Nat
  BY SitesAssumption, LenProperties DEF Arity
<1>2. \A k \in 1..(Arity(s) + 1) : Ends[s][k] \in Nat
  BY DEF Layout
<1>3. \A j, k \in 1..(Arity(s) + 1) : j < k => Ends[s][j] < Ends[s][k]
  BY DEF Layout
<1>4. ASSUME NEW j \in 1..(Arity(s) + 1), NEW k \in 1..(Arity(s) + 1), j <= k PROVE Ends[s][j] <= Ends[s][k]
  <2>1. CASE j = k
    BY <1>2, <2>1
  <2>2. CASE j < k
    BY <1>2, <1>3, <2>2
  <2> QED
    BY <1>1, <1>4, <2>1, <2>2
<1>5. ASSUME NEW k \in 1..Arity(s), NEW a \in Yields[SiteArgs[s][k]]
      PROVE  Ends[s][k + 1] = Ends[s][k] + EncodedSize(a) /\ a \in Args /\ WellFormed(a)
  <2>1. SiteArgs[s] \in Seq(DOMAIN Yields)
    BY SitesAssumption
  <2>2. SiteArgs[s][k] \in DOMAIN Yields
    BY <2>1, ElementOfSeq DEF Arity
  <2>3. a \in Args /\ WellFormed(a)
    BY <2>2, SitesAssumption DEF Args
  <2> QED
    BY <2>3 DEF Layout
<1> QED
  BY <1>1, <1>2, <1>3, <1>4, <1>5 DEF Layout

\* Every byte of the argument that is encoded next lies in the reservation.
LEMMA EncodesInside ==
  ASSUME NEW Ends, Layout(Ends), IInv, Laying(Ends), AtArgument("encode"), NEW a \in Yields[Expr]
  PROVE  /\ Top.off = Ends[Top.site][Top.i] /\ Top.off \in Nat
         /\ Top.off + EncodedSize(a) = Ends[Top.site][Top.i + 1]
         /\ Ends[Top.site][Top.i + 1] <= Len(area)
         /\ Len(EncodeTo(a)) = EncodedSize(a) /\ EncodedSize(a) \in Nat
<1>1. stack # <<>> /\ Top.at = "encode" /\ Top.i \in 1..Arity(Top.site) /\ Top.site \in Sites /\ WellFormed(a)
  BY ExprParts DEF IInv
<1>2. PICK n \in Nat \ {0} : n = Len(stack) /\ Top = stack[n]
  BY <1>1, TopParts DEF IInv
<1>3. n \in 1..Len(stack) /\ Inside(Top)
  BY <1>1, <1>2 DEF Inside
<1>4. Laid(Ends, Top) /\ Len(area) = Top.size
  BY <1>2, <1>3 DEF Laying, IInv, Reserved
<1>5. Top.off = Ends[Top.site][Top.i] /\ Len(area) = Ends[Top.site][Arity(Top.site) + 1]
  BY <1>1, <1>4 DEF Laid
<1>6. a \in Yields[SiteArgs[Top.site][Top.i]]
  BY DEF Expr
<1>7. PICK A \in Nat : A = Arity(Top.site)
  BY <1>1, LayoutParts
<1>8. Top.i \in 1..(A + 1) /\ Top.i + 1 \in 1..(A + 1) /\ A + 1 \in 1..(A + 1) /\ Top.i + 1 <= A + 1
  BY <1>1, <1>7
<1>9. Ends[Top.site][Top.i + 1] = Ends[Top.site][Top.i] + EncodedSize(a)
  BY <1>1, <1>6, LayoutParts
<1>10. Ends[Top.site][Top.i] \in Nat /\ Ends[Top.site][Top.i + 1] <= Ends[Top.site][A + 1]
  BY <1>1, <1>7, <1>8, LayoutParts
<1>11. Len(EncodeTo(a)) = EncodedSize(a) /\ EncodedSize(a) \in Nat
  BY <1>1, WritesEncodedSize, SizeNat
<1> QED
  BY <1>5, <1>7, <1>9, <1>10, <1>11

LEMMA LayingReplaced ==
  ASSUME NEW Ends, IInv, Laying(Ends), stack # <<>>, NEW f, Replaced(stack', stack, f),
         Laid(Ends, f), Inside(f) => Holds(Ends, f.site, f.said, f.i - 1, area'),
         area' = area \/ Inside(Top) \/ ~borrowed
  PROVE  Laying(Ends)'
<1>1. PICK n \in Nat \ {0} : n = Len(stack) /\ Top = stack[n]
  BY TopParts DEF IInv
<1>2. Len(stack') = n /\ (\A k \in 1..(n - 1) : stack'[k] = stack[k]) /\ stack'[n] = f
  BY <1>1 DEF Replaced
<1>3. (\A k \in 1..n : k = n \/ k \in 1..(n - 1)) /\ n \in 1..n /\ n \notin 1..(n - 1)
  BY <1>1
<1>4. (\A k \in 1..(n - 1) : k \in 1..n)
  BY <1>1
<1>5. ASSUME NEW k \in 1..(n - 1), Inside(stack[k])
      PROVE  area' = area
  BY <1>1, <1>3, <1>4, <1>5 DEF IInv, Borrowing
<1>6. ASSUME NEW k \in 1..n
      PROVE  /\ Laid(Ends, stack'[k])
             /\ Inside(stack'[k]) => Holds(Ends, stack'[k].site, stack'[k].said, stack'[k].i - 1, area')
  <2>1. CASE k = n
    BY <1>2, <2>1
  <2>2. CASE k \in 1..(n - 1)
    <3>1. Laid(Ends, stack[k]) /\ (Inside(stack[k]) => Holds(Ends, stack[k].site, stack[k].said, stack[k].i - 1, area))
      BY <1>1, <1>4, <2>2 DEF Laying
    <3> QED
      BY <1>2, <1>5, <2>2, <3>1
  <2> QED
    BY <1>3, <2>1, <2>2
<1> QED
  BY <1>2, <1>6, Zenon DEF Laying

\* Laid of a call that has just begun, and of the ones whose loop moves on.
LEMMA LaidFrame ==
  ASSUME NEW Ends, Layout(Ends), NEW s \in Sites
  PROVE  Laid(Ends, Frame(s))
BY LayoutParts DEF Laid, Frame

LEMMA TopLaid ==
  ASSUME NEW Ends, Layout(Ends), IInv, Laying(Ends), stack # <<>>
  PROVE  /\ Top \in Frames /\ FrameOK(Top) /\ Top.site \in Sites /\ Laid(Ends, Top)
         /\ Inside(Top) => Len(area) = Top.size /\ Holds(Ends, Top.site, Top.said, Top.i - 1, area)
<1>1. PICK n \in Nat \ {0} : n = Len(stack) /\ Top = stack[n] /\ FrameOK(Top)
  BY TopParts DEF IInv
<1>2. n \in 1..Len(stack)
  BY <1>1
<1>3. Top \in Frames /\ Top.site \in Sites
  BY <1>1 DEF FrameOK, Frames
<1> QED
  BY <1>1, <1>2, <1>3 DEF Laying, IInv, Reserved

\* The sizes add up to the layout.
LEMMA LayingAddSize ==
  ASSUME NEW Ends, Layout(Ends), IInv, Laying(Ends), AddSize
  PROVE  Laying(Ends)'
<1>1. PICK a \in Yields[Expr] : Update([Top EXCEPT !.size = @ + EncodedSize(a), !.i = @ + 1, !.ran = FALSE])
  BY DEF AddSize
<1>2. AtArgument("sizing") /\ borrowed' = borrowed /\ area' = area
  BY DEF AddSize, Evaluates
<1>3. PICK f : f = [Top EXCEPT !.size = @ + EncodedSize(a), !.i = @ + 1, !.ran = FALSE]
  OBVIOUS
<1>4. FrameOK(f) /\ ~Inside(f)
  BY <1>1, <1>2, <1>3, NextFrames DEF IInv
<1>5. stack # <<>> /\ Top.at = "sizing" /\ Top.i \in 1..Arity(Top.site)
  BY <1>2, ExprParts DEF IInv
<1>6. Top \in Frames /\ Top.site \in Sites /\ Laid(Ends, Top)
  BY <1>5, TopLaid
<1>7. Replaced(stack', stack, f)
  BY <1>1, <1>3, <1>4, <1>5, UpdateReplaced DEF Update, FrameOK, IInv, Stack
<1>8. /\ f.site = Top.site /\ f.at = "sizing" /\ f.i = Top.i + 1 /\ f.size = Top.size + EncodedSize(a)
      /\ f.off = Top.off /\ f.said = Top.said
  BY <1>3, <1>5, <1>6 DEF Frames
<1>9. Ends[Top.site][Top.i + 1] = Ends[Top.site][Top.i] + EncodedSize(a)
  BY <1>5, <1>6, LayoutParts DEF Expr
<1>10. Laid(Ends, f)
  BY <1>5, <1>6, <1>8, <1>9 DEF Laid
<1> QED
  BY <1>2, <1>4, <1>5, <1>7, <1>10, LayingReplaced

\* The size measured again in the closure is the one the layout has.
LEMMA LayingMeasureArg ==
  ASSUME NEW Ends, Layout(Ends), IInv, Laying(Ends), MeasureArg
  PROVE  Laying(Ends)'
<1>1. PICK a \in Yields[Expr] : Update([Top EXCEPT !.at = "encode", !.arg_size = EncodedSize(a), !.ran = FALSE])
  BY DEF MeasureArg
<1>2. AtArgument("measure") /\ borrowed' = borrowed /\ area' = area
  BY DEF MeasureArg, Evaluates
<1>3. PICK f : f = [Top EXCEPT !.at = "encode", !.arg_size = EncodedSize(a), !.ran = FALSE]
  OBVIOUS
<1>4. FrameOK(f) /\ Inside(f)
  BY <1>1, <1>2, <1>3, NextFrames DEF IInv
<1>5. stack # <<>> /\ Top.at = "measure" /\ Inside(Top) /\ Top.i \in 1..Arity(Top.site)
  BY <1>2, ExprParts DEF IInv, Inside
<1>6. /\ Top \in Frames /\ Top.site \in Sites /\ Laid(Ends, Top)
      /\ Holds(Ends, Top.site, Top.said, Top.i - 1, area)
  BY <1>5, TopLaid
<1>7. Replaced(stack', stack, f)
  BY <1>1, <1>3, <1>4, <1>5, UpdateReplaced DEF Update, FrameOK, IInv, Stack
<1>8. /\ f.site = Top.site /\ f.at = "encode" /\ f.i = Top.i /\ f.size = Top.size
      /\ f.off = Top.off /\ f.said = Top.said /\ f.arg_size = EncodedSize(a)
  BY <1>3, <1>5, <1>6 DEF Frames
<1>9. Ends[Top.site][Top.i + 1] - Ends[Top.site][Top.i] = EncodedSize(a)
  <2>1. Ends[Top.site][Top.i + 1] = Ends[Top.site][Top.i] + EncodedSize(a) /\ WellFormed(a)
    BY <1>5, <1>6, LayoutParts DEF Expr
  <2>2. Ends[Top.site][Top.i] \in Nat /\ EncodedSize(a) \in Nat
    <3>1. Top.i \in 1..(Arity(Top.site) + 1)
      BY <1>5, <1>6, LayoutParts
    <3> QED
      BY <1>6, <2>1, <3>1, LayoutParts, SizeNat
  <2> QED
    BY <2>1, <2>2
<1>10. Laid(Ends, f)
  BY <1>5, <1>6, <1>8, <1>9 DEF Laid
<1> QED
  BY <1>2, <1>5, <1>6, <1>7, <1>8, <1>10, LayingReplaced

\* write reserves as many bytes as the layout has: the cast to u32 loses nothing.
LEMMA LayingEnterWrite ==
  ASSUME NEW Ends, Layout(Ends), IInv, Laying(Ends), EnterWrite
  PROVE  Laying(Ends)'
<1>1. /\ AtEnd("sizing") /\ ~borrowed /\ stack # <<>> /\ Top.at = "sizing"
      /\ Update([Top EXCEPT !.at = "measure", !.i = 1, !.size = ArgsSize])
  BY DEF EnterWrite, Ensure, EnsureFails, Borrows, AtEnd, InCall
<1>2. /\ Top \in Frames /\ FrameOK(Top) /\ Top.site \in Sites /\ Laid(Ends, Top)
  BY <1>1, TopLaid
<1>3. Top.i = Arity(Top.site) + 1
  <2>1. Top.i > Arity(Top.site)
    BY <1>1 DEF AtEnd, Arity
  <2>2. Arity(Top.site) \in Nat
    BY <1>2, LayoutParts
  <2> QED
    BY <1>2, <2>1, <2>2 DEF FrameOK
<1>4. ArgsSize = Ends[Top.site][Arity(Top.site) + 1]
  <2>1. Top.size = Ends[Top.site][Arity(Top.site) + 1] /\ Top.size < U32Values
    BY <1>1, <1>2, <1>3, LayoutParts DEF Laid
  <2>2. Top.size \in Nat
    BY <1>2 DEF Frames
  <2>3. Top.size % U32Values = Top.size
    BY <2>1, <2>2, U32Positive
  <2> QED
    BY <2>1, <2>3 DEF ArgsSize
<1>5. PICK f : f = [Top EXCEPT !.at = "measure", !.i = 1, !.size = ArgsSize]
  OBVIOUS
<1>6. FrameOK(f) /\ Inside(f)
  BY <1>1, <1>5, NextFrames DEF IInv
<1>7. Replaced(stack', stack, f)
  BY <1>1, <1>5, <1>6, UpdateReplaced DEF Update, FrameOK, IInv, Stack
<1>8. /\ f.site = Top.site /\ f.at = "measure" /\ f.i = 1 /\ f.size = ArgsSize
      /\ f.off = Top.off /\ f.said = Top.said
  BY <1>2, <1>5 DEF Frames
<1>9. Top.off = 0 /\ Top.said = <<>> /\ Ends[Top.site][1] = 0
  BY <1>1, <1>2, LayoutParts DEF Laid
<1>10. f.i - 1 = 0 /\ Len(f.said) = 0 /\ \A k \in 1..(f.i - 1) : FALSE
  BY <1>8, <1>9
<1>11. Laid(Ends, f) /\ Holds(Ends, f.site, f.said, f.i - 1, area')
  BY <1>4, <1>8, <1>9, <1>10 DEF Laid, Holds
<1> QED
  BY <1>1, <1>7, <1>11, LayingReplaced

\* encode_to writes behind the arguments that are already there.
LEMMA LayingEncodeArg ==
  ASSUME NEW Ends, Layout(Ends), IInv, Laying(Ends), EncodeArg
  PROVE  Laying(Ends)'
<1>1. PICK a \in Yields[Expr] :
        /\ area' = [k \in DOMAIN area |-> IF k - Top.off \in DOMAIN EncodeTo(a) THEN EncodeTo(a)[k - Top.off] ELSE area[k]]
        /\ Update([Top EXCEPT !.at = "measure", !.off = @ + Top.arg_size, !.i = @ + 1,
                              !.ran = FALSE, !.said = Append(@, a)])
  BY DEF EncodeArg
<1>2. AtArgument("encode")
  BY DEF EncodeArg, Evaluates
<1>3. PICK f : f = [Top EXCEPT !.at = "measure", !.off = @ + Top.arg_size, !.i = @ + 1,
                               !.ran = FALSE, !.said = Append(@, a)]
  OBVIOUS
<1>4. FrameOK(f) /\ Inside(f)
  BY <1>1, <1>2, <1>3, NextFrames DEF IInv
<1>5. /\ stack # <<>> /\ Top.at = "encode" /\ Inside(Top) /\ Top.i \in 1..Arity(Top.site)
      /\ a \in Args /\ WellFormed(a)
  BY <1>2, ExprParts DEF IInv, Inside
<1>6. /\ Top \in Frames /\ Top.site \in Sites /\ Laid(Ends, Top)
      /\ Holds(Ends, Top.site, Top.said, Top.i - 1, area)
  BY <1>5, TopLaid
<1>7. Replaced(stack', stack, f)
  BY <1>1, <1>3, <1>4, <1>5, UpdateReplaced DEF Update, FrameOK, IInv, Stack
<1>8. /\ f.site = Top.site /\ f.at = "measure" /\ f.i = Top.i + 1 /\ f.size = Top.size
      /\ f.off = Top.off + Top.arg_size /\ f.said = Append(Top.said, a)
  BY <1>3, <1>5, <1>6 DEF Frames
<1>9. PICK i \in Nat \ {0}, s \in Sites, said \in Seq(Args) :
        i = Top.i /\ s = Top.site /\ said = Top.said /\ i \in 1..Arity(s)
  BY <1>5, <1>6 DEF Frames
<1>10. PICK A \in Nat : A = Arity(s)
  BY LayoutParts
<1>11. PICK off \in Nat, z \in Nat, n \in Nat :
         /\ off = Top.off /\ z = EncodedSize(a) /\ n = Len(area)
         /\ off = Ends[s][i] /\ off + z = Ends[s][i + 1] /\ off + z <= n
  <2>1. Len(area) \in Nat
    BY LenProperties DEF IInv, Reserved
  <2> QED
    BY <1>2, <1>9, <2>1, EncodesInside
<1>12. PICK bytes \in Seq(Byte) : bytes = EncodeTo(a) /\ DOMAIN bytes = 1..z
  BY <1>5, <1>11, WritesEncodedSize, LenProperties
<1>13. \A p \in 1..n : area'[p] = IF p - off \in 1..z THEN bytes[p - off] ELSE area[p]
  <2>1. DOMAIN area = 1..n
    BY <1>11, LenProperties DEF IInv, Reserved
  <2> QED
    BY <1>1, <1>11, <1>12, <2>1
<1>14. PICK more \in Seq(Args) :
         more = Append(said, a) /\ Len(more) = i /\ more[i] = a /\ \A k \in 1..(i - 1) : more[k] = said[k]
  <2>1. Len(said) = i - 1
    BY <1>5, <1>6, <1>9 DEF Laid
  <2>2. Append(said, a) \in Seq(Args) /\ Pushed(Append(said, a), said, a)
    BY <1>5, AppendPushed
  <2>3. PICK m \in Seq(Args) : m = Append(said, a) /\ Pushed(m, said, a)
    BY <2>2
  <2>4. (i - 1) + 1 = i
    OBVIOUS
  <2> QED
    BY <2>1, <2>3, <2>4 DEF Pushed
<1>15. \A k \in 1..i : k = i \/ k \in 1..(i - 1)
  OBVIOUS
<1>16. \A k \in 1..i : more[k] \in Yields[SiteArgs[s][k]]
  <2>1. \A k \in 1..(i - 1) : said[k] \in Yields[SiteArgs[s][k]]
    BY <1>5, <1>6, <1>9 DEF Laid
  <2>2. a \in Yields[SiteArgs[s][i]]
    BY <1>9 DEF Expr
  <2> QED
    BY <1>14, <1>15, <2>1, <2>2
<1>17. ASSUME NEW k \in 1..i, NEW j \in 1..EncodedSize(more[k])
       PROVE  area'[Ends[s][k] + j] = EncodeTo(more[k])[j]
  <2>1. CASE k = i
    <3>1. more[k] = a /\ j \in 1..z
      BY <1>11, <1>14, <1>17, <2>1
    <3>2. off + j \in 1..n /\ (off + j) - off = j
      <4>1. off + z <= n /\ j \in Nat /\ j >= 1 /\ j <= z
        BY <1>11, <3>1
      <4> QED
        BY <4>1
    <3>3. area'[off + j] = bytes[j]
      BY <1>13, <3>1, <3>2
    <3> QED
      BY <1>11, <1>12, <2>1, <3>1, <3>3
  <2>2. CASE k \in 1..(i - 1)
    <3>1. more[k] = said[k]
      BY <1>14, <2>2
    <3>2. area[Ends[s][k] + j] = EncodeTo(more[k])[j]
      BY <1>6, <1>9, <1>17, <2>2, <3>1 DEF Holds
    <3>3. /\ k \in 1..A /\ k \in 1..(A + 1) /\ k + 1 \in 1..(A + 1) /\ i \in 1..(A + 1) /\ k + 1 <= i
      BY <1>9, <1>10, <2>2
    <3>4. PICK e \in Nat, w \in Nat : e = Ends[s][k] /\ w = EncodedSize(more[k]) /\ e + w = Ends[s][k + 1]
      <4>1. Ends[s][k + 1] = Ends[s][k] + EncodedSize(more[k]) /\ WellFormed(more[k])
        <5>1. k \in 1..Arity(s) /\ more[k] \in Yields[SiteArgs[s][k]]
          BY <1>10, <1>16, <3>3
        <5> QED
          BY <5>1, LayoutParts
      <4>2. Ends[s][k] \in Nat /\ EncodedSize(more[k]) \in Nat
        BY <1>10, <3>3, <4>1, LayoutParts, SizeNat
      <4> QED
        BY <4>1, <4>2
    <3>5. e + w <= off
      <4>1. k + 1 \in 1..(Arity(s) + 1) /\ i \in 1..(Arity(s) + 1) /\ k + 1 <= i
        BY <1>10, <3>3
      <4>2. Ends[s][k + 1] <= Ends[s][i]
        BY <4>1, LayoutParts
      <4> QED
        BY <1>11, <3>4, <4>2
    <3>6. j \in 1..w
      BY <1>17, <3>4
    <3>7. e + j \in 1..n /\ (e + j) - off \notin 1..z
      <4>1. off + z <= n /\ e + w <= off /\ j \in Nat /\ j >= 1 /\ j <= w
        BY <1>11, <3>5, <3>6
      <4> QED
        BY <4>1
    <3> QED
      BY <1>13, <3>2, <3>4, <3>7
  <2> QED
    BY <1>15, <2>1, <2>2
<1>18. f.i - 1 = i /\ f.i = i + 1 /\ f.said = more /\ f.site = s
  BY <1>8, <1>9, <1>14
<1>19. Holds(Ends, f.site, f.said, f.i - 1, area')
  BY <1>17, <1>18, Zenon DEF Holds
<1>20. f.off = Ends[s][i + 1] /\ f.size = Ends[s][Arity(s) + 1]
  <2>1. Top.arg_size = Ends[s][i + 1] - Ends[s][i] /\ Top.size = Ends[s][Arity(s) + 1]
    BY <1>5, <1>6, <1>9 DEF Laid
  <2> QED
    BY <1>8, <1>11, <2>1
<1>21. Laid(Ends, f)
  BY <1>8, <1>14, <1>16, <1>18, <1>20 DEF Laid
<1> QED
  BY <1>5, <1>7, <1>19, <1>21, LayingReplaced

\* A call made by an argument begins its own layout above the others.
LEMMA LayingCallInArgument ==
  ASSUME NEW Ends, Layout(Ends), IInv, Laying(Ends), CallInArgument
  PROVE  Laying(Ends)'
<1>1. PICK at \in Places : AtArgument(at)
  BY DEF CallInArgument, Places
<1>2. stack # <<>> /\ Calls[Expr] \in Sites
  BY <1>1, ExprParts DEF CallInArgument, IInv
<1>3. /\ Top \in Frames /\ FrameOK(Top) /\ Laid(Ends, Top)
      /\ Inside(Top) => Holds(Ends, Top.site, Top.said, Top.i - 1, area)
  BY <1>2, TopLaid
<1>4. PICK g \in Frames :
        /\ g = [Top EXCEPT !.ran = TRUE] /\ g.site = Top.site /\ g.at = Top.at /\ g.i = Top.i
        /\ g.size = Top.size /\ g.off = Top.off /\ g.arg_size = Top.arg_size /\ g.said = Top.said
  <2>1. [Top EXCEPT !.ran = TRUE] \in Frames
    BY <1>1, NextFrames DEF FrameOK, IInv
  <2> QED
    BY <1>3, <2>1 DEF Frames
<1>5. Laid(Ends, g) /\ (Inside(g) => Holds(Ends, g.site, g.said, g.i - 1, area))
  BY <1>3, <1>4 DEF Laid, Inside
<1>6. PICK outer \in Seq(Frames) : outer = Append(Front(stack), g) /\ Replaced(outer, stack, g)
  BY <1>2, UpdateReplaced DEF Stack, IInv
<1>7. PICK n \in Nat \ {0} : n = Len(stack) /\ Top = stack[n]
  BY <1>2, TopParts DEF IInv
<1>8. /\ Len(outer) = n
      /\ \A k \in 1..n : /\ Laid(Ends, outer[k])
                         /\ Inside(outer[k]) => Holds(Ends, outer[k].site, outer[k].said, outer[k].i - 1, area)
  <2>1. Len(outer) = n /\ (\A k \in 1..(n - 1) : outer[k] = stack[k]) /\ outer[n] = g
    BY <1>6, <1>7 DEF Replaced
  <2>2. \A k \in 1..n : k = n \/ k \in 1..(n - 1)
    BY <1>7
  <2>3. ASSUME NEW k \in 1..n
        PROVE  /\ Laid(Ends, outer[k])
               /\ Inside(outer[k]) => Holds(Ends, outer[k].site, outer[k].said, outer[k].i - 1, area)
    <3>1. CASE k = n
      BY <1>5, <2>1, <3>1
    <3>2. CASE k \in 1..(n - 1)
      <4>1. Laid(Ends, stack[k]) /\ (Inside(stack[k]) => Holds(Ends, stack[k].site, stack[k].said, stack[k].i - 1, area))
        BY <1>7 DEF Laying
      <4> QED
        BY <2>1, <3>2, <4>1
    <3> QED
      BY <2>2, <3>1, <3>2
  <2> QED
    BY <2>1, <2>3
<1>9. area' = area
  BY DEF CallInArgument
<1>10. CASE stack' = outer
  BY <1>8, <1>9, <1>10, Zenon DEF Laying
<1>11. CASE stack' = Append(outer, Frame(Calls[Expr]))
  <2>1. PICK f \in Frames : f = Frame(Calls[Expr]) /\ ~Inside(f) /\ Laid(Ends, f)
    BY <1>2, FrameType, LaidFrame DEF FrameOK
  <2>2. Len(stack') = n + 1 /\ (\A k \in 1..n : stack'[k] = outer[k]) /\ stack'[n + 1] = f
    BY <1>8, <1>11, <2>1, AppendPushed DEF Pushed
  <2>3. \A k \in 1..(n + 1) : k = n + 1 \/ k \in 1..n
    BY <1>7
  <2>4. ASSUME NEW k \in 1..(n + 1)
        PROVE  /\ Laid(Ends, stack'[k])
               /\ Inside(stack'[k]) => Holds(Ends, stack'[k].site, stack'[k].said, stack'[k].i - 1, area')
    <3>1. CASE k = n + 1
      BY <2>1, <2>2, <3>1
    <3>2. CASE k \in 1..n
      <4>1. /\ Laid(Ends, outer[k])
            /\ Inside(outer[k]) => Holds(Ends, outer[k].site, outer[k].said, outer[k].i - 1, area)
        BY <1>8, <3>2
      <4> QED
        BY <1>9, <2>2, <3>2, <4>1
    <3> QED
      BY <2>3, <3>1, <3>2
  <2> QED
    BY <2>2, <2>4, Zenon DEF Laying
<1> QED
  BY <1>4, <1>6, <1>10, <1>11 DEF CallInArgument

LEMMA StepLaying ==
  ASSUME NEW Ends, Layout(Ends), IInv, Laying(Ends), [Next]_vars
  PROVE  Laying(Ends)'
<1>1. CASE UNCHANGED <<stack, area>>
  BY <1>1, Zenon DEF Laying
<1>2. CASE stack' = <<>>
  BY <1>2 DEF Laying
<1>3. ASSUME NEW s \in Sites, Call(s) PROVE Laying(Ends)'
  <2>1. CASE ~Emits(s)
    BY <1>2, <1>3, <2>1 DEF Call
  <2>2. CASE Emits(s)
    <3>1. PICK f : f = Frame(s) /\ ~Inside(f) /\ Laid(Ends, f)
      BY FrameType, LaidFrame
    <3>2. stack' = <<f>>
      BY <1>3, <2>2, <3>1 DEF Call
    <3>3. Len(stack') = 1 /\ stack'[1] = f /\ \A k \in 1..1 : k = 1
      BY <3>2
    <3> QED
      BY <3>1, <3>3, Zenon DEF Laying
  <2> QED
    BY <2>1, <2>2
<1>4. CASE stack # <<>> /\ stack' = Front(stack) /\ area' = area
  <2>1. PICK n \in Nat \ {0} : n = Len(stack) /\ Len(stack') = n - 1 /\ \A k \in 1..(n - 1) : stack'[k] = stack[k]
    BY <1>4, TopParts DEF IInv, Popped
  <2>2. \A k \in 1..(n - 1) : k \in 1..n
    BY <2>1
  <2>3. ASSUME NEW k \in 1..(n - 1)
        PROVE  /\ Laid(Ends, stack'[k])
               /\ Inside(stack'[k]) => Holds(Ends, stack'[k].site, stack'[k].said, stack'[k].i - 1, area')
    <3>1. Laid(Ends, stack[k]) /\ (Inside(stack[k]) => Holds(Ends, stack[k].site, stack[k].said, stack[k].i - 1, area))
      BY <2>1, <2>2 DEF Laying
    <3> QED
      BY <1>4, <2>1, <3>1
  <2> QED
    BY <2>1, <2>3, Zenon DEF Laying
<1>5. CASE EnterFull \/ Commit
  BY <1>4, <1>5 DEF EnterFull, FullGivesUp, Commit, AtEnd, InCall
<1>6. CASE Preallocate \/ Start \/ DecodeArg \/ DecodeFails \/ DecodeEnd \/ OthersLock \/ OthersUnlock \/ UNCHANGED vars
  BY <1>1, <1>6 DEF Preallocate, Start, DecodeArg, DecodeFails, DecodeEnd, OthersLock, OthersUnlock, threadVars, vars
<1>7. CASE EnterPanics \/ ArgumentPanics
  BY <1>2, <1>7 DEF EnterPanics, ArgumentPanics, Unwind
<1> QED
  BY <1>3, <1>5, <1>6, <1>7, LayingAddSize, LayingMeasureArg, LayingEncodeArg, LayingEnterWrite, LayingCallInArgument
  DEF Next, InsideCall, Worker

-----------------------------------------------------------------------------
(* What the worker reads                                                   *)

\* A call that ends leaves a whole record behind.
LEMMA StepWholes ==
  ASSUME NEW Ends, Layout(Ends), IInv, Laying(Ends), Wholes(Ends), [Next]_vars
  PROVE  Wholes(Ends)'
<1>0. queue \in Seq(Records)
  BY DEF IInv, Committed
<1>1. CASE queue' = queue
  BY <1>1, Zenon DEF Wholes
<1>2. CASE queue # <<>> /\ queue' = Tail(queue)
  <2>1. /\ Len(Tail(queue)) = Len(queue) - 1 /\ Len(queue) \in Nat
        /\ \A k \in 1..Len(Tail(queue)) : Tail(queue)[k] = queue[k + 1]
    BY <1>0, <1>2, HeadTailProperties, LenProperties
  <2>2. \A k \in 1..(Len(queue) - 1) : k + 1 \in 1..Len(queue)
    BY <2>1
  <2>3. \A k \in 1..Len(queue') : Whole(Ends, queue'[k])
    BY <1>2, <2>1, <2>2 DEF Wholes
  <2> QED
    BY <2>3, Zenon DEF Wholes
<1>3. CASE Commit
  <2>1. stack # <<>> /\ Top.at = "measure" /\ Inside(Top) /\ Top.i > Arity(Top.site)
    BY <1>3 DEF Commit, AtEnd, InCall, Inside, Arity
  <2>2. /\ Top \in Frames /\ FrameOK(Top) /\ Top.site \in Sites /\ Laid(Ends, Top)
        /\ Len(area) = Top.size /\ Holds(Ends, Top.site, Top.said, Top.i - 1, area)
    BY <2>1, TopLaid
  <2>3. Arity(Top.site) \in Nat
    BY <2>2, LayoutParts
  <2>4. Top.i - 1 = Arity(Top.site)
    BY <2>1, <2>2, <2>3 DEF FrameOK
  <2>5. PICK r : r = Record /\ r.site = Top.site /\ r.size = Top.size /\ r.bytes = area /\ r.said = Top.said
    <3>1. Record.site = Top.site /\ Record.size = Top.size /\ Record.bytes = area /\ Record.said = Top.said
      BY DEF Record
    <3> QED
      BY <3>1, Zenon
  <2>6. /\ Top.size = Ends[Top.site][Arity(Top.site) + 1] /\ Len(Top.said) = Top.i - 1
        /\ \A k \in 1..(Top.i - 1) : Top.said[k] \in Yields[SiteArgs[Top.site][k]]
    BY <2>1, <2>2 DEF Laid
  <2>7. Whole(Ends, r)
    BY <2>2, <2>4, <2>5, <2>6 DEF Whole
  <2>8. r \in Records
    BY <2>2, <2>5 DEF Record, Records, Frames, IInv, Reserved
  <2>9. Pushed(queue', queue, r)
    BY <1>0, <1>3, <2>5, <2>8, AppendPushed DEF Commit
  <2>10. PICK m \in Nat : m = Len(queue)
    BY <1>0, LenProperties
  <2>11. \A k \in 1..(m + 1) : k \in 1..m \/ k = m + 1
    OBVIOUS
  <2>12. Len(queue') = m + 1 /\ (\A k \in 1..m : queue'[k] = queue[k]) /\ queue'[m + 1] = r
    BY <2>9, <2>10 DEF Pushed
  <2>13. \A k \in 1..(m + 1) : Whole(Ends, queue'[k])
    BY <2>7, <2>10, <2>11, <2>12 DEF Wholes
  <2> QED
    BY <2>12, <2>13, Zenon DEF Wholes
<1> QED
  BY <1>1, <1>2, <1>3 DEF Next, InsideCall, Worker, OthersLock, OthersUnlock, vars, threadVars, Start, Preallocate, Call, CallInArgument, AddSize,
     EnterPanics, EnterWrite, EnterFull, MeasureArg, EncodeArg, ArgumentPanics, DecodeArg, DecodeFails, DecodeEnd

LEMMA OldestParts ==
  ASSUME NEW Ends, IInv, Wholes(Ends), queue # <<>>
  PROVE  /\ Oldest \in Records /\ Oldest = queue[1] /\ Whole(Ends, Oldest)
         /\ Oldest.site \in Sites /\ Oldest.size \in Nat /\ Oldest.said \in Seq(Args)
         /\ Oldest.bytes \in Seq(Cell) /\ Len(Oldest.bytes) = Oldest.size
<1>1. queue \in Seq(Records) /\ \A k \in 1..Len(queue) : Len(queue[k].bytes) = queue[k].size
  BY DEF IInv, Committed
<1>2. Oldest = queue[1] /\ Oldest \in Records /\ 1 \in 1..Len(queue)
  BY <1>1, HeadTailProperties, ElementOfSeq, LenProperties, EmptySeq DEF Oldest
<1> QED
  BY <1>1, <1>2 DEF Wholes, Records

\* While bytes are left, the decode loop is at the beginning of an argument, and
\* decode_one returns what was meant or the decoder's refusal.
LEMMA DecodesNext ==
  ASSUME NEW Ends, Layout(Ends), IInv, Wholes(Ends), Reading(Ends), queue # <<>>, reader.offset < Oldest.size
  PROVE  LET k == Len(reader.args) + 1
             a == Oldest.said[k]
         IN  /\ k \in 1..Arity(Oldest.site) /\ a \in Args /\ WellFormed(a)
             /\ Rest = Decoded(a)
             /\ Ends[Oldest.site][k + 1] = reader.offset + EncodedSize(a)
<1>1. PICK s \in Sites, size \in Nat, said \in Seq(Args), bytes \in Seq(Cell) :
        /\ s = Oldest.site /\ size = Oldest.size /\ said = Oldest.said /\ bytes = Oldest.bytes
        /\ Len(bytes) = size
  BY OldestParts
<1>2. /\ size = Ends[s][Arity(s) + 1] /\ Len(said) = Arity(s)
      /\ \A k \in 1..Arity(s) : said[k] \in Yields[SiteArgs[s][k]]
      /\ Holds(Ends, s, said, Arity(s), bytes)
  BY <1>1, OldestParts DEF Whole
<1>3. PICK A \in Nat : A = Arity(s)
  BY LayoutParts
<1>4. PICK m \in Nat, off \in Nat : m = Len(reader.args) /\ off = reader.offset /\ m \in 0..A /\ off = Ends[s][m + 1]
  <2>1. Len(reader.args) \in 0..Arity(s) /\ reader.offset = Ends[s][Len(reader.args) + 1] /\ reader.offset \in Nat
    BY <1>1 DEF Reading
  <2> QED
    BY <1>3, <2>1
<1>5. off < size
  BY <1>1, <1>4
<1>6. m + 1 \in 1..A /\ m + 1 \in 1..(A + 1) /\ m + 2 \in 1..(A + 1) /\ A + 1 \in 1..(A + 1) /\ m + 2 <= A + 1
  <2>1. m # A
    BY <1>2, <1>3, <1>4, <1>5
  <2> QED
    BY <1>4, <2>1
<1>7. PICK a : a = said[m + 1] /\ a \in Yields[SiteArgs[s][m + 1]]
  BY <1>2, <1>3, <1>6
<1>8. PICK z \in Nat : /\ z = EncodedSize(a) /\ Ends[s][(m + 1) + 1] = Ends[s][m + 1] + EncodedSize(a)
                       /\ a \in Args /\ WellFormed(a)
  <2>1. m + 1 \in 1..Arity(s)
    BY <1>3, <1>6
  <2>2. Ends[s][(m + 1) + 1] = Ends[s][m + 1] + EncodedSize(a) /\ a \in Args /\ WellFormed(a)
    BY <1>7, <2>1, LayoutParts
  <2> QED
    BY <2>2, SizeNat
<1>9. off + z <= size
  <2>1. m + 2 \in 1..(Arity(s) + 1) /\ Arity(s) + 1 \in 1..(Arity(s) + 1) /\ m + 2 <= Arity(s) + 1 /\ (m + 1) + 1 = m + 2
    BY <1>3, <1>6
  <2>2. Ends[s][m + 2] <= Ends[s][Arity(s) + 1]
    BY <2>1, LayoutParts
  <2> QED
    BY <1>2, <1>4, <1>8, <2>1, <2>2
<1>10. PICK data \in Seq(Cell) : /\ data = SubSeq(bytes, off + 1, size)
                                 /\ Len(data) = size - off /\ \A j \in 1..(size - off) : data[j] = bytes[off + j]
  <2>1. off + 1 \in Int /\ size \in Int /\ \A i \in (off + 1)..size : bytes[i] \in Cell
    <3>1. \A i \in 1..size : bytes[i] \in Cell
      BY <1>1, ElementOfSeq
    <3>2. \A i \in (off + 1)..size : i \in 1..size
      OBVIOUS
    <3> QED
      BY <3>1, <3>2
  <2>2. PICK t : t = SubSeq(bytes, off + 1, size)
    OBVIOUS
  <2>3. /\ t \in Seq(Cell) /\ Len(t) = IF off + 1 <= size THEN size - (off + 1) + 1 ELSE 0
        /\ \A i \in 1..(size - (off + 1) + 1) : t[i] = bytes[(off + 1) + i - 1]
    BY <2>1, <2>2, SubSeqProperties, SMTT(30)
  <2>4. off + 1 <= size /\ size - (off + 1) + 1 = size - off /\ \A i \in 1..(size - off) : (off + 1) + i - 1 = off + i
    BY <1>5
  <2>5. Len(t) = size - off
    BY <2>3, <2>4
  <2>6. \A i \in 1..(size - off) : t[i] = bytes[off + i]
    BY <2>3, <2>4
  <2> QED
    BY <2>2, <2>3, <2>5, <2>6
<1>11. \A j \in 1..z : data[j] = EncodeTo(a)[j]
  <2> SUFFICES ASSUME NEW j \in 1..z PROVE data[j] = EncodeTo(a)[j]
    OBVIOUS
  <2>1. j \in 1..(size - off)
    BY <1>9
  <2>2. bytes[Ends[s][m + 1] + j] = EncodeTo(said[m + 1])[j]
    BY <1>2, <1>3, <1>6, <1>7, <1>8 DEF Holds
  <2> QED
    BY <1>4, <1>7, <1>10, <2>1, <2>2
<1>12. DecodeOne(data) = Decoded(a)
  <2>1. z <= Len(data)
    BY <1>9, <1>10
  <2> QED
    BY <1>8, <1>11, <2>1, DecodesEncoded
<1>13. Rest = Decoded(a)
  BY <1>1, <1>4, <1>10, <1>12 DEF Rest
<1> QED
  BY <1>1, <1>3, <1>4, <1>6, <1>7, <1>8, <1>13

\* The decode loop starts over with the next record.
LEMMA StartsOver ==
  ASSUME NEW Ends, Layout(Ends), reader' = NoArgs, queue' # <<>> => Oldest'.site \in Sites
  PROVE  Reading(Ends)'
<1>1. /\ reader'.offset = 0 /\ reader'.args = <<>> /\ Len(reader'.args) = 0
      /\ reader' \in [offset : Nat, args : Seq(Meanings)]
  BY DEF NoArgs
<1>2. ASSUME queue' # <<>>
      PROVE  Len(reader'.args) \in 0..Arity(Oldest'.site) /\ reader'.offset = Ends[Oldest'.site][Len(reader'.args) + 1]
  <2>1. Arity(Oldest'.site) \in Nat /\ Ends[Oldest'.site][1] = 0
    BY <1>2, LayoutParts
  <2>2. Len(reader'.args) + 1 = 1
    BY <1>1
  <2> QED
    BY <1>1, <2>1, <2>2
<1>3. \A k \in 1..Len(reader'.args) : FALSE
  BY <1>1
<1> QED
  BY <1>1, <1>2, <1>3 DEF Reading

LEMMA MeaningsType == \A a \in Args : Meaning(a) \in Meanings
BY DEF Meanings

LEMMA ReadingDecodeArg ==
  ASSUME NEW Ends, Layout(Ends), IInv, Wholes(Ends), Reading(Ends), DecodeArg
  PROVE  Reading(Ends)'
<1>1. /\ queue # <<>> /\ reader.offset < Oldest.size /\ Rest.ok /\ queue' = queue
      /\ reader' = [offset |-> reader.offset + Rest.used, args |-> Append(reader.args, Rest.arg)]
  BY DEF DecodeArg
<1>2. PICK s \in Sites, said \in Seq(Args) : s = Oldest.site /\ said = Oldest.said
  BY <1>1, OldestParts
<1>3. PICK m \in Nat, off \in Nat, args \in Seq(Meanings) :
        /\ m = Len(args) /\ off = reader.offset /\ args = reader.args
        /\ \A k \in 1..m : args[k] = Meaning(said[k])
  <2>1. reader.offset \in Nat /\ reader.args \in Seq(Meanings)
    BY DEF Reading
  <2>2. Len(reader.args) \in Nat
    BY <2>1, LenProperties
  <2> QED
    BY <1>1, <1>2, <2>1, <2>2 DEF Reading
<1>4. PICK a \in Args : /\ a = said[m + 1] /\ m + 1 \in 1..Arity(s) /\ WellFormed(a) /\ Rest = Decoded(a)
                        /\ Ends[s][(m + 1) + 1] = off + EncodedSize(a)
  BY <1>1, <1>2, <1>3, DecodesNext
<1>5. Rest.used = EncodedSize(a) /\ Rest.arg = Meaning(a) /\ EncodedSize(a) \in Nat
  BY <1>1, <1>4, SizeNat DEF Decoded, Ok, Err
<1>6. PICK more \in Seq(Meanings) : more = Append(args, Meaning(a)) /\ Pushed(more, args, Meaning(a))
  BY MeaningsType, AppendPushed
<1>7. Len(more) = m + 1 /\ (\A k \in 1..m : more[k] = args[k]) /\ more[m + 1] = Meaning(a)
  BY <1>3, <1>6 DEF Pushed
<1>8. \A k \in 1..(m + 1) : k = m + 1 \/ k \in 1..m
  OBVIOUS
<1>9. \A k \in 1..(m + 1) : more[k] = Meaning(said[k])
  BY <1>3, <1>4, <1>7, <1>8
<1>10. PICK pos \in Nat : pos = off + EncodedSize(a)
  BY <1>5
<1>11. reader' = [offset |-> pos, args |-> more]
  BY <1>1, <1>3, <1>5, <1>6, <1>10
<1>12. reader' \in [offset : Nat, args : Seq(Meanings)] /\ reader'.offset = pos /\ reader'.args = more
  BY <1>11
<1>13. Oldest' = Oldest /\ queue' # <<>>
  BY <1>1 DEF Oldest
<1>14. m + 1 \in 0..Arity(s) /\ pos = Ends[s][(m + 1) + 1]
  BY <1>4, <1>10
<1> QED
  BY <1>2, <1>7, <1>9, <1>12, <1>13, <1>14 DEF Reading

LEMMA StepReading ==
  ASSUME NEW Ends, Layout(Ends), IInv, IInv', Wholes(Ends), Wholes(Ends)', Reading(Ends), [Next]_vars
  PROVE  Reading(Ends)'
<1>0. queue \in Seq(Records) /\ queue' \in Seq(Records)
  BY DEF IInv, Committed
<1>1. CASE queue' = queue /\ reader' = reader
  BY <1>1 DEF Reading, Oldest
<1>2. queue' # <<>> => Oldest'.site \in Sites
  <2>1. ASSUME queue' # <<>> PROVE Head(queue') \in Records
    BY <1>0, <2>1, HeadTailProperties
  <2> QED
    BY <2>1 DEF Records, Oldest
<1>3. CASE reader' = NoArgs
  BY <1>2, <1>3, StartsOver
<1>4. CASE Commit
  <2>1. reader' = reader
    BY <1>4 DEF Commit
  <2>2. CASE queue = <<>>
    BY <1>3, <2>1, <2>2 DEF Reading
  <2>3. CASE queue # <<>>
    <3>1. PICK r \in Records : queue' = Append(queue, r)
      <4>1. queue' = Append(queue, Record)
        BY <1>4 DEF Commit
      <4>2. stack # <<>> /\ Top.at = "measure"
        BY <1>4 DEF Commit, AtEnd, InCall
      <4>3. Top \in Frames
        BY <4>2, TopParts DEF IInv, FrameOK
      <4>4. Record \in Records
        BY <4>3 DEF Record, Records, Frames, IInv, Reserved
      <4> QED
        BY <4>1, <4>4
    <3>2. Head(queue') = Head(queue) /\ queue' # <<>>
      <4>1. PICK n \in Nat \ {0} : n = Len(queue) /\ Head(queue) = queue[1]
        BY <1>0, <2>3, HeadTailProperties, LenProperties, EmptySeq
      <4>2. Len(queue') = n + 1 /\ \A k \in 1..n : queue'[k] = queue[k]
        BY <1>0, <3>1, <4>1, AppendPushed DEF Pushed
      <4>3. 1 \in 1..n /\ n + 1 # 0
        BY <4>1
      <4>4. queue' # <<>> /\ queue'[1] = queue[1]
        BY <4>2, <4>3
      <4> QED
        BY <1>0, <4>1, <4>4, HeadTailProperties
    <3> QED
      BY <2>1, <2>3, <3>2 DEF Reading, Oldest
  <2> QED
    BY <2>2, <2>3
<1>5. CASE DecodeFails \/ DecodeEnd
  BY <1>3, <1>5 DEF DecodeFails, DecodeEnd
<1> QED
  BY <1>1, <1>4, <1>5, ReadingDecodeArg DEF Next, InsideCall, Worker, OthersLock, OthersUnlock, vars, threadVars, Start, Preallocate, Call, CallInArgument, AddSize,
     EnterPanics, EnterWrite, EnterFull, MeasureArg, EncodeArg, ArgumentPanics

LEMMA StepRoundTrip ==
  ASSUME NEW Ends, Layout(Ends), IInv, LInv(Ends), [Next]_vars
  PROVE  RoundTrip'
<1>0. Wholes(Ends) /\ Reading(Ends) /\ RoundTrip
  BY DEF LInv
<1>1. CASE out' = out
  BY <1>0, <1>1 DEF RoundTrip
<1>2. CASE DecodeFails
  <2>1. queue # <<>> /\ reader.offset < Oldest.size /\ ~Rest.ok /\ out' = Outcome(Rest.error)
    BY <1>2 DEF DecodeFails
  <2>2. PICK said \in Seq(Args), s \in Sites : said = Oldest.said /\ s = Oldest.site /\ Len(said) = Arity(s)
    BY <1>0, <2>1, OldestParts DEF Whole
  <2>3. PICK k \in 1..Arity(s) : Rest = Decoded(said[k])
    BY <1>0, <2>1, <2>2, DecodesNext
  <2>4. said[k].type = "Custom" /\ ~DecoderAccepts(said[k].ptr, said[k].body) /\ Rest.error = "DecoderFailed"
    BY <2>1, <2>3 DEF Decoded, Ok, Err
  <2>5. k \in DOMAIN said
    BY <2>2, LenProperties
  <2>6. out'.error = "DecoderFailed" /\ out'.said = said
    BY <2>1, <2>2, <2>4 DEF Outcome
  <2> QED
    BY <2>4, <2>5, <2>6 DEF RoundTrip
<1>3. CASE DecodeEnd
  <2>1. queue # <<>> /\ reader.offset >= Oldest.size /\ out' = Outcome("none")
    BY <1>3 DEF DecodeEnd
  <2>2. PICK said \in Seq(Args), s \in Sites, size \in Nat :
          /\ said = Oldest.said /\ s = Oldest.site /\ size = Oldest.size
          /\ Len(said) = Arity(s) /\ size = Ends[s][Arity(s) + 1]
    BY <1>0, <2>1, OldestParts DEF Whole
  <2>3. PICK A \in Nat : A = Arity(s)
    BY LayoutParts
  <2>4. PICK args \in Seq(Meanings), m \in Nat, off \in Nat :
          /\ args = reader.args /\ m = Len(args) /\ off = reader.offset /\ m \in 0..A /\ off = Ends[s][m + 1]
          /\ \A k \in 1..m : args[k] = Meaning(said[k])
    <3>1. reader.args \in Seq(Meanings) /\ Len(reader.args) \in Nat /\ reader.offset \in Nat
      BY <1>0, LenProperties DEF Reading
    <3>2. /\ Len(reader.args) \in 0..A /\ reader.offset = Ends[s][Len(reader.args) + 1]
          /\ \A k \in 1..Len(reader.args) : reader.args[k] = Meaning(said[k])
      BY <1>0, <2>1, <2>2, <2>3 DEF Reading
    <3> QED
      BY <3>1, <3>2
  <2>5. m = A
    <3>1. CASE m < A
      <4>1. m + 1 \in 1..(Arity(s) + 1) /\ Arity(s) + 1 \in 1..(Arity(s) + 1) /\ m + 1 < Arity(s) + 1
        BY <2>3, <2>4, <3>1
      <4>2. off < size
        BY <2>2, <2>4, <4>1, LayoutParts
      <4>3. off >= size
        BY <2>1, <2>2, <2>4
      <4> QED
        BY <4>2, <4>3
    <3> QED
      BY <2>4, <3>1
  <2>6. DOMAIN said = 1..A /\ DOMAIN args = 1..A
    BY <2>2, <2>3, <2>4, <2>5, LenProperties
  <2>7. args = [k \in DOMAIN said |-> Meaning(said[k])]
    <3>1. args = [k \in 1..A |-> args[k]]
      BY <2>6, SeqDef
    <3>2. \A k \in 1..A : args[k] = Meaning(said[k])
      BY <2>4, <2>5
    <3> QED
      BY <2>6, <3>1, <3>2
  <2>8. out'.error = "none" /\ out'.said = said /\ out'.args = args /\ out'.site = s
    BY <2>1, <2>2, <2>4 DEF Outcome
  <2>9. Len(out'.said) = Len(SiteArgs[out'.site])
    BY <2>2, <2>8 DEF Arity
  <2> QED
    BY <2>7, <2>8, <2>9 DEF RoundTrip
<1> QED
  BY <1>1, <1>2, <1>3 DEF Next, InsideCall, Worker, OthersLock, OthersUnlock, vars, threadVars, Start, Preallocate, Call, CallInArgument, AddSize,
     EnterPanics, EnterWrite, EnterFull, MeasureArg, EncodeArg, Commit, ArgumentPanics, DecodeArg

LEMMA InitLInv ==
  ASSUME NEW Ends, Init
  PROVE  LInv(Ends)
<1>1. Laying(Ends) /\ Wholes(Ends)
  BY DEF Init, Laying, Wholes
<1>2. Reading(Ends)
  BY DEF Init, Reading, NoArgs
<1>3. RoundTrip
  BY DEF Init, RoundTrip, NoOutcome
<1> QED
  BY <1>1, <1>2, <1>3 DEF LInv

LEMMA LayoutInvariance ==
  ASSUME NEW Ends, Layout(Ends)
  PROVE  Spec => [](IInv /\ LInv(Ends))
<1>1. Init => IInv /\ LInv(Ends)
  BY InitIInv, InitLInv
<1>2. IInv /\ LInv(Ends) /\ [Next]_vars => (IInv /\ LInv(Ends))'
  <2> SUFFICES ASSUME IInv, LInv(Ends), [Next]_vars PROVE (IInv /\ LInv(Ends))'
    OBVIOUS
  <2>1. IInv'
    BY StepIInv
  <2>2. Laying(Ends) /\ Wholes(Ends) /\ Reading(Ends)
    BY DEF LInv
  <2>3. Laying(Ends)' /\ Wholes(Ends)'
    BY <2>2, StepLaying, StepWholes
  <2>4. Reading(Ends)' /\ RoundTrip'
    BY <2>1, <2>2, <2>3, StepReading, StepRoundTrip
  <2> QED
    BY <2>1, <2>3, <2>4 DEF LInv
<1> QED
  BY <1>1, <1>2, PTL DEF Spec

-----------------------------------------------------------------------------
(* Theorems for arguments of stable size                                   *)

\* The SAFETY comment of the write closure, for every set of sites and arguments
\* that have a layout and every nesting: no encode_to writes past the bytes that
\* write reserved, also when a nested call or a panic came in between.
THEOREM WritesInside ==
  ASSUME NEW Ends, Layout(Ends)
  PROVE  Spec => []InsideReservation
<1>1. IInv /\ LInv(Ends) => InsideReservation
  <2> SUFFICES ASSUME IInv, LInv(Ends), AtArgument("encode"), NEW a \in Yields[Expr]
               PROVE  Top.off + Len(EncodeTo(a)) <= Len(area)
    BY DEF InsideReservation
  <2>1. /\ Top.off + EncodedSize(a) = Ends[Top.site][Top.i + 1] /\ Ends[Top.site][Top.i + 1] <= Len(area)
        /\ Len(EncodeTo(a)) = EncodedSize(a)
    BY EncodesInside DEF LInv
  <2> QED
    BY <2>1
<1> QED
  BY <1>1, LayoutInvariance, PTL

\* What the worker decodes is what the call encoded, for every set of sites and
\* arguments that have a layout: however calls nest, fail or panic and however
\* the worker's steps fall between them, a decoded record has all arguments of its
\* site, in order, each with its meaning; only a user's decoder can refuse one.
THEOREM DecodesWhatWasLogged ==
  ASSUME NEW Ends, Layout(Ends)
  PROVE  Spec => []RoundTrip
<1>1. LInv(Ends) => RoundTrip
  BY DEF LInv
<1> QED
  BY <1>1, LayoutInvariance, PTL

=============================================================================
