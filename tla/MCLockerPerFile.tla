-------------------------- MODULE MCLockerPerFile --------------------------
(***************************************************************************)
(* Three goroutines that lock and unlock two keys for ever, for reading    *)
(* and for writing: a writer can queue behind a writer and a reader behind *)
(* both, while the other key is made and deleted.  As many entries as      *)
(* keys: an entry that is not in the map is referred to only inside the    *)
(* map's mutex, so one to allocate is always left.                         *)
(***************************************************************************)
EXTENDS LockerPerFile
=============================================================================
