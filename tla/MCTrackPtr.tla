----------------------------- MODULE MCTrackPtr -----------------------------
(* TLC instances of TrackPtr and its properties.                           *)
EXTENDS TrackPtrProps, Crc32, TLC

MCGarbage == {[msize |-> 0, links |-> Null, sum |-> NoSum]}
MCGarbageWild ==
  [msize : {0}, links : {Null, Wild}, sum : {NoSum}]
MCMoves == {-7, -1}
MCGarbageSums ==
  [msize : {0, 2}, links : {Null, Wild}, sum : {NoSum, <<0, 0>>}]
MCSym == Permutations(Core)

(* The model keeps the bytes a checksum was computed from in place of the  *)
(* checksum.  That loses nothing: Crc32, which has the table and the check *)
(* value it should, tells the old bytes of every tracker from the present  *)
(* ones, of the same number or not, exactly when they differ.              *)
SumsStandForCrc ==
  /\ TableIsRemainders
  /\ CheckValue
  /\ \A c \in Core :
       core[c].live /\ core[c].sum # NoSum /\ CanChecksum(heap, c) =>
         (Crc32(core[c].sum) # Crc32(__track_calc_memory_checksum(heap, c))
            <=> __track_memory_changed(heap, c))

TrackView == <<core, block, mem, fault, inited, main, handle, leaked, pc, pos>>

=============================================================================
