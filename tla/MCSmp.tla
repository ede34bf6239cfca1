------------------------------- MODULE MCSmp -------------------------------
(* Instances of Smp for TLC.                                               *)
EXTENDS Smp

\* One system per start path, with the features its CPUs have (chickens.c)
T8142 == [chip |-> "t8142", retention |-> TRUE, fastIpi |-> TRUE, unsafeWfi |-> TRUE,
          badRvbar |-> {}, lateEntry |-> TRUE]
T8152 == [chip |-> "t8152", retention |-> TRUE, fastIpi |-> FALSE, unsafeWfi |-> FALSE,
          badRvbar |-> {}, lateEntry |-> TRUE]
T8140 == [chip |-> "t8140", retention |-> TRUE, fastIpi |-> TRUE, unsafeWfi |-> TRUE,
          badRvbar |-> {1}, lateEntry |-> FALSE]
M1 == [chip |-> "generic", retention |-> TRUE, fastIpi |-> TRUE, unsafeWfi |-> FALSE,
       badRvbar |-> {}, lateEntry |-> FALSE]
\* A7 to A10 have neither retention nor fast IPIs
A10 == [M1 EXCEPT !.retention = FALSE, !.fastIpi = FALSE]

StartSocs == {T8142, T8152, T8140}
ModeSocs == {A10, M1}
=============================================================================
