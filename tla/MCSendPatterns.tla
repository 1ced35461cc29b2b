---------------------------- MODULE MCSendPatterns ----------------------------
(***************************************************************************)
(* Values for the constant of SendPatterns that a cfg cannot write down.   *)
(***************************************************************************)
EXTENDS SendPatterns

\* Buffers of up to six bytes; strides, bursts and partitions that divide
\* them, exceed them, or leave a rest.
Small ==
  {s \in [kind : Kinds, count : 0..6, gap : 1..4, size : 1..3] :
     s.kind \in {"Stride", "RandomBurst"} \/ s.gap = 1}

\* The last byte belongs to no partition, like the last 96 bytes of the
\* default options (4096 values, 100 in a partition).
Remainder ==
  [kind : {"Linear"}, count : {5}, gap : {1}, size : {2}]
===============================================================================
