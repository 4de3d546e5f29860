------------------------------- MODULE Registry --------------------------------
(***************************************************************************)
(* The "validators" key of Redis as a handler that throws leaves it        *)
(* (src/protocol/index.ts:7-23, 45-51): nothing catches the rejection, and *)
(* the process takes its own port out of the list.  It reads the list,     *)
(* awaits the answer, and writes back what it read without its port, so    *)
(* that what others have written in between is lost.  Redis answers each   *)
(* process in the order it asked.                                          *)
(***************************************************************************)
EXTENDS Sequences

(* The registries of the ports in S: the list, and for each port the lists *)
(* it has read and not written back yet.                                   *)
RegistryOf(S) == [peers : SUBSET S, reads : [S -> Seq(SUBSET S)]]

(* All of S are listed, and nobody has asked for the list. *)
Listing(S) == [peers |-> S, reads |-> [n \in S |-> <<>>]]

(* updatePeerReplica up to its first await: port n reads the list. *)
ReadBy(r, n) == [r EXCEPT !.reads = [r.reads EXCEPT ![n] = Append(r.reads[n], r.peers)]]

(* Port n has a list to write back. *)
HasRead(r, n) == r.reads[n] # <<>>

(* updatePeerReplica after it: the oldest of them, without port n. *)
WrittenBy(r, n) ==
    [peers |-> Head(r.reads[n]) \ {n}, reads |-> [r.reads EXCEPT ![n] = Tail(r.reads[n])]]
================================================================================
