--------------------------- MODULE MCPhaseIsolation ---------------------------
EXTENDS PhaseIsolation, TLC

(* A stratum to fit on with two files, and one to test on with three; each *)
(* phase keeps one recording of each, and leaves one to back it up.        *)
Depths == <<2, 3>>
Scenarios == <<"attack", "attack">>
One == [phase \in Phase |-> 1]
Slices == [phase \in Phase |-> IF phase = "pilot" THEN <<0, 0>> ELSE <<1, 1>>]

Recording(stream, sample, attack) == [stream |-> stream, sample |-> sample, attack |-> attack]
Copy == Recording(1, 2, FALSE)

(* An empty recording; the first; as an attack; a copy of it with the      *)
(* sample of the second; the second and two more.                          *)
Recordings ==
  {Recording(None, None, FALSE), Recording(1, 1, FALSE), Recording(1, 1, TRUE), Copy,
   Recording(2, 2, FALSE), Recording(3, 3, FALSE), Recording(4, 4, FALSE)}

SomeCorpora ==
  {(<<1, 1>> :> Recording(1, 1, FALSE) @@ <<1, 2>> :> Recording(2, 2, FALSE) @@
    <<2, 1>> :> first @@ <<2, 2>> :> second @@ <<2, 3>> :> Recording(4, 4, FALSE)) :
   first \in {Copy, Recording(3, 3, FALSE)},
   second \in {Copy, Recording(None, None, FALSE), Recording(1, 1, TRUE), Recording(3, 3, FALSE)}}
=============================================================================
