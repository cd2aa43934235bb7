---------------------------- MODULE HostSessionMC ----------------------------
(* Values of the constants of HostSession for TLC: words and pages of two    *)
(* bytes; a kernel to install, a kernel for later and an image of the PLC.    *)
EXTENDS HostSession

MCSessions == << [image |-> <<0, 1, 1>>, target |-> "AT32", apply |-> TRUE],
                 [image |-> <<1, 0, 0>>, target |-> "AT32", apply |-> FALSE],
                 [image |-> <<1, 0>>, target |-> "OTHER", apply |-> FALSE] >>

\* The staging area is full of an older image.
OldFlash == {[a \in 0 .. StageSize - 1 |-> 0]}
=============================================================================
