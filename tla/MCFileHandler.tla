--------------------------- MODULE MCFileHandler ---------------------------
(***************************************************************************)
(* Two goroutines and two names, b being the one that is copied to.  Files *)
(* of up to three chunks, so that readers and writers can be in the middle *)
(* of one, and Append finds something to append to.  Of a name's inodes    *)
(* one is linked or new, and each goroutine may have an older one open.    *)
(***************************************************************************)
EXTENDS FileHandler

CONSTANTS a, b

MCCalls ==
  [op : {"write", "append"}, name : {a}, data : {<<1, 2>>}]
    \cup [op : {"clear", "read", "delete", "create"}, name : {a}]
    \cup [op : {"copy"}, name : {a}, to : {b}]
    \cup [op : {"deleteall", "new"}]

MCSpares == 1..3
=============================================================================
