---------------------------- MODULE MCFrameStack ----------------------------
(* The two frame stacks with the kernel's own numbers, 100 words each.      *)
EXTENDS FrameStack

Initial == {Word * 100}
None == {}

\* getPhysmem(): blocks of 32 frames, the first one pushed at boot.
getPhysmem == [blocks |-> 0 .. 3, chunk |-> 32, extra |-> 0, low |-> 0, boot |-> TRUE,
               tables |-> 0]

\* newPagetable(): blocks of 64 frames, neighbours or not, and a mapping that
\* may need a table of each of two levels.
newPagetable == [blocks |-> {0, 1, 2, 4}, chunk |-> 64, extra |-> 1, low |-> 20,
                 boot |-> FALSE, tables |-> 2]

Both == {getPhysmem, newPagetable}

MCFrames == (0 .. 5) \X (0 .. 63)
=============================================================================
