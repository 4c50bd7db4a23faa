----------------------------- MODULE MC_HilBench -----------------------------
(***************************************************************************)
(* An instance of HilBench for TLC.                                        *)
(***************************************************************************)
EXTENDS HilBench

Rf(c) == [rf |-> TRUE, channel |-> c, duration |-> 1,
          rendered |-> TRUE, known |-> TRUE, radio |-> "wifi"]
Of(fs) == [faults |-> fs, allow_multi_fault |-> Len(fs) > 1]

\* A single fault, two of them, two of which the firmware refuses the second, two
\* that the emission gate does not see for what they are (a WiFi sweep declared
\* in another category, and a LoRa carrier with a licensed WiFi channel), and two
\* plans refused by the gates: a sweep that the licence does not cover, and a
\* fault without a hardware renderer.
BenchPlans ==
  {Of(<<Rf(6)>>),
   Of(<<Rf(6), Rf(1)>>),
   Of(<<Rf(6), [Rf(0) EXCEPT !.rf = FALSE, !.known = FALSE, !.radio = "none"]>>),
   Of(<<[Rf(0) EXCEPT !.rf = FALSE], [Rf(6) EXCEPT !.radio = "lora"]>>),
   Of(<<Rf(0)>>),
   Of(<<[Rf(6) EXCEPT !.rendered = FALSE]>>)}

Bands == {<<1, 11>>, <<36, 165>>}
==============================================================================
