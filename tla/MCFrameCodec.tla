---------------------------- MODULE MCFrameCodec ----------------------------
(* FrameCodec on identifiers around the boundaries of the packed fields. *)
EXTENDS FrameCodec

Std(b) == [ext |-> FALSE, bits |-> b]
Ext(b) == [ext |-> TRUE, bits |-> b]

IdSet == {Std({}), Std({0}), Std(0 .. 10), Std({1, 9}), Ext({0}), Ext({17}), Ext({18}), Ext(0 .. 28),
          Ext({28, 3})}
FilterIdSet == {Std({0}), Std({1, 9}), Ext({18}), Ext({28, 3})}
Lens == {0, 1, 7, 8, 9, 12, 13, 48, 64, 65}
SeqSet == {{0, 6}, 0 .. 22}
MaskSet == {{}, {0, 18}, {10, 11, 17, 28}, 0 .. 31}
=============================================================================
