------------------------------- MODULE Engine -------------------------------
(***************************************************************************)
(* The I/O engine of src/server-obj.c run by a pool of dispatch threads:   *)
(* read_from_obj() and write_to_obj() split at the points where another    *)
(* thread can interleave.  read_from_obj() tests each reader's gotEOF      *)
(* without bufLock and then calls write_obj_data(), which takes it;        *)
(* write_to_obj() drains under bufLock and, after releasing it, tests      *)
(* gotEOF and in == out and may call close_obj().  The graph operations    *)
(* themselves (close_obj(), create_obj_link()) are those of ObjGraph, each *)
(* one step.                                                               *)
(*                                                                         *)
(* The readers list is walked with a live iterator (an element removed     *)
(* meanwhile is not visited); the dispatcher hands an object to at most    *)
(* one thread per direction at a time.                                     *)
(***************************************************************************)
EXTENDS Naturals, Sequences, SequencesExt

CONSTANTS
  Consoles, Logfiles, Sockets, LogOf, ConsoleOpens, LogOpenFails, Null,
  Garbage, MaxDepth,
  Threads,     \* the dispatch threads
  RWSessions   \* session kinds the accept loop creates: TRUE = read-write

VARIABLES
  writer, readers, fd, gotEOF, pending, status, fault,
  pc,          \* pc[t]: "idle", "rd_check", "rd_put" or "wr_tail"
  obj,         \* obj[t]: the object t is reading from or writing to
  visited,     \* visited[t]: readers of obj[t] the iterator has passed
  cur,         \* cur[t]: the reader t is about to put into
  putAfterEOF  \* history: a put reached an object whose gotEOF was set

OG == INSTANCE ObjGraph

graph == <<writer, readers, fd, gotEOF, pending, status, fault>>
vars == <<graph, pc, obj, visited, cur, putAfterEOF>>

Objs == OG!Objs

(* Threads dispatched on object o to read from it / to write to it.        *)
Reading(o) == {t \in Threads : pc[t] \in {"rd_check", "rd_put"} /\ obj[t] = o}
Writing(o) == {t \in Threads : pc[t] = "wr_tail" /\ obj[t] = o}

(* A graph step taken by thread t or by the accept loop.                   *)
GraphTo(S) == OG!SetTo(S)

Idle(t) == /\ pc' = [pc EXCEPT ![t] = "idle"]
           /\ UNCHANGED <<obj, visited, cur>>

Init ==
  /\ OG!Init
  /\ pc = [t \in Threads |-> "idle"]
  /\ obj = [t \in Threads |-> Null]
  /\ visited = [t \in Threads |-> {}]
  /\ cur = [t \in Threads |-> Null]
  /\ putAfterEOF = FALSE

(* The accept loop creates a session (ObjGraph's Accept).                  *)
Accept(s, c, rw) ==
  /\ rw \in RWSessions
  /\ OG!Accept(s, c, rw)
  /\ UNCHANGED <<pc, obj, visited, cur, putAfterEOF>>

(* read_from_obj(o): read() returned 0, close_obj(o).                      *)
ReadEOF(t, o) ==
  /\ fault = "none" /\ pc[t] = "idle" /\ Reading(o) = {}
  /\ status[o] = "live" /\ fd[o]
  /\ GraphTo(OG!CloseObj(OG!G, o, 0))
  /\ UNCHANGED <<pc, obj, visited, cur, putAfterEOF>>

(* read_from_obj(o): read() returned data; start walking o's readers.     *)
ReadData(t, o) ==
  /\ fault = "none" /\ pc[t] = "idle" /\ Reading(o) = {}
  /\ status[o] = "live" /\ fd[o]
  /\ pc' = [pc EXCEPT ![t] = "rd_check"]
  /\ obj' = [obj EXCEPT ![t] = o]
  /\ visited' = [visited EXCEPT ![t] = {}]
  /\ UNCHANGED <<graph, cur, putAfterEOF>>

(* The iterator's next reader, and the unlocked test of its gotEOF.       *)
ReadCheck(t) ==
  LET o == obj[t]
      todo == SelectSeq(readers[o], LAMBDA x : x \notin visited[t])
  IN
  /\ fault = "none" /\ pc[t] = "rd_check"
  /\ IF status[o] = "freed"
     THEN /\ fault' = "use_after_free"
          /\ UNCHANGED <<writer, readers, fd, gotEOF, pending, status>>
          /\ UNCHANGED <<pc, obj, visited, cur>>
     ELSE IF todo = <<>> THEN Idle(t) /\ UNCHANGED graph
     ELSE LET r == Head(todo) IN
          /\ visited' = [visited EXCEPT ![t] = @ \cup {r}]
          /\ IF status[r] = "freed"
             THEN fault' = "use_after_free" /\ UNCHANGED <<pc, cur>>
             ELSE IF gotEOF[r] THEN UNCHANGED <<fault, pc, cur>>
             ELSE /\ pc' = [pc EXCEPT ![t] = "rd_put"]
                  /\ cur' = [cur EXCEPT ![t] = r]
                  /\ UNCHANGED fault
          /\ UNCHANGED <<writer, readers, fd, gotEOF, pending, status, obj>>
  /\ UNCHANGED putAfterEOF

(* write_obj_data(reader, buf, n) under the reader's bufLock.             *)
ReadPut(t) ==
  LET r == cur[t] IN
  /\ fault = "none" /\ pc[t] = "rd_put"
  /\ GraphTo(OG!Put(OG!G, r))
  /\ putAfterEOF' = (putAfterEOF \/ (status[r] = "live" /\ gotEOF[r]))
  /\ pc' = [pc EXCEPT ![t] = "rd_check"]
  /\ UNCHANGED <<obj, visited, cur>>

(* write_to_obj(o), the part under bufLock: write() drains the buffer or, *)
(* on a socket whose peer is gone, fails with EPIPE, setting gotEOF and   *)
(* flushing it.                                                            *)
WriteLocked(t, o) ==
  /\ fault = "none" /\ pc[t] = "idle" /\ Writing(o) = {}
  /\ status[o] = "live" /\ fd[o] /\ (pending[o] \/ gotEOF[o])
  /\ \E epipe \in BOOLEAN :
       /\ epipe => pending[o] /\ o \in Sockets
       /\ gotEOF' = [gotEOF EXCEPT ![o] = @ \/ epipe]
  /\ pending' = [pending EXCEPT ![o] = FALSE]
  /\ pc' = [pc EXCEPT ![t] = "wr_tail"]
  /\ obj' = [obj EXCEPT ![t] = o]
  /\ UNCHANGED <<writer, readers, fd, status, fault, visited, cur, putAfterEOF>>

(* A plausible slip: the in == out test negated, so the deferred close   *)
(* is attempted only while data remains.                                   *)
WriteTailBusyClose(t) ==
  LET o == obj[t] IN
  /\ fault = "none" /\ pc[t] = "wr_tail"
  /\ IF status[o] = "freed" THEN fault' = "use_after_free"
                                 /\ UNCHANGED <<writer, readers, fd, gotEOF, pending, status>>
     ELSE IF gotEOF[o] /\ pending[o] THEN GraphTo(OG!CloseObj(OG!G, o, 0))
     ELSE UNCHANGED graph
  /\ Idle(t)
  /\ UNCHANGED putAfterEOF

(* write_to_obj(o) after the unlock: gotEOF and in == out read again, and *)
(* close_obj(o) completes the deferred close.                              *)
WriteTail(t) ==
  LET o == obj[t] IN
  /\ fault = "none" /\ pc[t] = "wr_tail"
  /\ IF status[o] = "freed" THEN fault' = "use_after_free"
                                 /\ UNCHANGED <<writer, readers, fd, gotEOF, pending, status>>
     ELSE IF gotEOF[o] /\ ~pending[o] THEN GraphTo(OG!CloseObj(OG!G, o, 0))
     ELSE UNCHANGED graph
  /\ Idle(t)
  /\ UNCHANGED putAfterEOF

Next ==
  \/ \E s \in Sockets, c \in Consoles, rw \in BOOLEAN : Accept(s, c, rw)
  \/ \E t \in Threads :
       \/ \E o \in Consoles \cup Sockets : ReadEOF(t, o) \/ ReadData(t, o)
       \/ \E o \in Objs : WriteLocked(t, o)
       \/ ReadCheck(t) \/ ReadPut(t) \/ WriteTail(t)

Spec == Init /\ [][Next]_vars

(* The dispatcher's select loop services every object whose buffer holds *)
(* data or whose close is deferred each time a thread is free, so an      *)
(* object that is writable whenever a thread is idle is eventually written *)
(* (strong fairness); a dispatched thread runs its handler to the end.     *)
Fairness ==
  /\ \A o \in Objs : SF_vars(\E t \in Threads : WriteLocked(t, o))
  /\ \A t \in Threads : WF_vars(WriteTail(t)) /\ WF_vars(ReadCheck(t))
                         /\ WF_vars(ReadPut(t))

FairSpec == Spec /\ Fairness

-----------------------------------------------------------------------------

TypeOK ==
  /\ OG!TypeOK
  /\ pc \in [Threads -> {"idle", "rd_check", "rd_put", "wr_tail"}]
  /\ obj \in [Threads -> Objs \cup {Null}]
  /\ visited \in [Threads -> SUBSET Objs]
  /\ cur \in [Threads -> Objs \cup {Null}]
  /\ putAfterEOF \in BOOLEAN

(* spec.md 3: once gotEOF is set no further bytes may be appended to the   *)
(* buffer.  read_from_obj() tests the reader's gotEOF before it calls      *)
(* write_obj_data(); no put may reach a reader whose gotEOF is set.        *)
NoPutAfterEOF == ~putAfterEOF

(* spec.md 4.4 and 8 (scenario 6): a close deferred by gotEOF completes:  *)
(* write_to_obj() drains the buffer and close_obj() clears gotEOF and      *)
(* releases the descriptor (destroying a socket), unless the daemon has    *)
(* hit a memory error first.                                               *)
DeferredCloseCompletes ==
  \A o \in Objs :
    (status[o] = "live" /\ gotEOF[o]) ~> (~gotEOF[o] \/ status[o] = "freed" \/ fault # "none")

(* No dispatch thread touches an object another step has destroyed.       *)
NoUseAfterFree == fault # "use_after_free"

=============================================================================
