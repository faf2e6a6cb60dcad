------------------------------ MODULE MCLogCall -------------------------------
(* A 32-bit build (PtrSize = 4) with bytes of 32 values: call sites for every *)
(* shape of argument, nested, filtered and oversized calls.                   *)
EXTENDS LogCall

CONSTANT Stable   \* whether every evaluation of an argument has the same length

Ptr == <<4, 0, 0, 4>>
Letter == 7        \* the one byte that starts no UTF-8 sequence is 31
MCUtf8(b) == \A i \in DOMAIN b : b[i] # 31
MCDecoderAccepts(ptr, payload) == ptr = Ptr /\ payload # <<13>>
MCNone == "none"

MCYields ==
  [short |-> {Arg("I16", <<>>, <<1, 0>>), Arg("I16", <<>>, <<30, 31>>)},
   name |-> {Arg("Str", <<>>, <<Letter>>)} \cup
            IF Stable THEN {} ELSE {Arg("Str", <<>>, <<Letter, Letter>>)},
   index |-> {Arg("Usize", <<>>, <<3, 0, 0, 31>>)},
   delta |-> {Arg("Isize", <<>>, <<3, 0, 0, 31>>), Arg("Isize", <<>>, <<3, 0, 0, 1>>)},
   flag |-> {Arg("Bool", <<>>, <<0>>), Arg("Bool", <<>>, <<1>>)},
   order |-> {Arg("Custom", Ptr, <<12>>), Arg("Custom", Ptr, <<13>>)},
   essay |-> {Arg("Str", <<>>, [i \in 1..20 |-> Letter])},
   noisy |-> {Arg("U8", <<>>, <<9>>)},
   quiet |-> {Arg("U8", <<>>, <<8>>)}]
MCCalls == [e \in DOMAIN MCYields |-> CASE e = "noisy" -> "plain"
                                        [] e = "quiet" -> "debug"
                                        [] OTHER -> MCNone]
MCSiteArgs ==
  [plain |-> <<>>, debug |-> <<"short">>, mixed |-> <<"short", "name", "flag">>,
   sized |-> <<"delta">>, index |-> <<"index">>, custom |-> <<"order">>,
   long |-> <<"essay">>, nested |-> <<"flag", "noisy">>, silent |-> <<"quiet">>]
MCSites == DOMAIN MCSiteArgs
MCSiteLevel == [s \in MCSites |-> IF s = "debug" THEN 1 ELSE 2]

\* The stable arguments have a layout; the unstable ones have none.
MCEnds ==
  LET First(e) == CHOOSE a \in MCYields[e] : TRUE IN
  [s \in MCSites |->
     LET begin[k \in 1..(Len(MCSiteArgs[s]) + 1)] ==
           IF k = 1 THEN 0 ELSE begin[k - 1] + EncodedSize(First(MCSiteArgs[s][k - 1]))
     IN  begin]
ASSUME StableHasLayout == Stable <=> Layout(MCEnds)
=============================================================================
