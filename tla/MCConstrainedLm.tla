-------------------------- MODULE MCConstrainedLm --------------------------
(* Instances of ConstrainedLm for TLC. *)
EXTENDS ConstrainedLm

\* A number that begins another, keys of two tokens, languages of one and of
\* two tokens, and what users write that is in no tree.
SmallValues == [bpm |-> {<<"9">>, <<"9", "0">>},
                duration |-> {<<"2">>, <<"2", "0">>},
                keyscale |-> {<<"A", "minor">>, <<"C", "minor">>},
                language |-> {<<"en">>, <<"y", "ue">>},
                timesignature |-> {<<"3">>, <<"4">>}]
SmallUserValues == [bpm |-> {<<"0", "9">>},
                    duration |-> {},
                    keyscale |-> {<<"A", "minor", "0">>},
                    language |-> {<<"xx">>},
                    timesignature |-> {<<"4">>}]
SmallSpelled == [d \in {2, 3} |-> IF d = 3 THEN <<"3", "0">> ELSE <<"2">>]
===========================================================================
