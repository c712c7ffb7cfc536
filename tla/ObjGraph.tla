------------------------------ MODULE ObjGraph ------------------------------
(***************************************************************************)
(* The object graph of the conman daemon (src/server-obj.c): consoles,     *)
(* their logfiles and client sockets, the writer/readers links between     *)
(* them, and the operations that change them: create_obj_link() (with the  *)
(* steal of a console already in use), open_obj(), close_obj() with its    *)
(* cascade and deferred EOF drain, and the graph effects of               *)
(* read_from_obj() and write_to_obj().                                     *)
(*                                                                         *)
(* All operations run on one dispatching thread here; every handler is a   *)
(* single step.  Buffer contents are abstracted to "pending" (in != out);  *)
(* CircBuf models the buffer itself.  close_obj() is recursive and reads   *)
(* an uninitialized variable, so it is an operator that returns the set of *)
(* states the call can end in.  Memory errors end the run in "fault".     *)
(***************************************************************************)
EXTENDS Naturals, Sequences, SequencesExt

CONSTANTS
  Consoles,     \* console objects created from the configuration
  Logfiles,     \* logfile objects created from the configuration
  Sockets,      \* client connections the accept loop may create
  LogOf,        \* LogOf[l]: the console that logfile l records
  ConsoleOpens, \* whether open_obj() gives a console a descriptor
  LogOpenFails, \* whether open() of a logfile file may fail
  Null,         \* the NULL pointer
  Garbage,      \* a pointer value equal to no object
  MaxDepth      \* bound on the close_obj() recursion depth

Objs == Consoles \cup Logfiles \cup Sockets

ASSUME LogOf \in [Logfiles -> Consoles]
ASSUME ConsoleOpens \in BOOLEAN /\ LogOpenFails \in BOOLEAN
ASSUME Null \notin Objs /\ Garbage \notin Objs \cup {Null}

VARIABLES
  writer,   \* obj->writer
  readers,  \* obj->readers, in list order
  fd,       \* obj->fd >= 0
  gotEOF,   \* obj->gotEOF
  pending,  \* obj->bufInPtr != obj->bufOutPtr
  status,   \* "unborn" (socket not yet accepted), "live" or "freed"
  fault     \* "none", or the memory error the daemon ran into

vars == <<writer, readers, fd, gotEOF, pending, status, fault>>

Type(o) == IF o \in Consoles THEN "console"
           ELSE IF o \in Logfiles THEN "logfile" ELSE "socket"

(* The state as one record, so that recursive operators can transform it. *)
G == [writer |-> writer, readers |-> readers, fd |-> fd, gotEOF |-> gotEOF,
      pending |-> pending, status |-> status, fault |-> fault]

Fault(g, f) == IF g.fault = "none" THEN [g EXCEPT !.fault = f] ELSE g

(* Touching a freed object is a use after free.                            *)
Touch(g, o) == IF g.status[o] = "freed" THEN Fault(g, "use_after_free") ELSE g

(* write_obj_data() into o's buffer.  It becomes non-empty, except that a *)
(* put of exactly the miscomputed "avail" bytes into a non-empty buffer   *)
(* leaves in == out (see CircBuf), which reads as empty.                   *)
Put(g, o) ==
  LET h == Touch(g, o) IN
  IF g.pending[o]
  THEN {[h EXCEPT !.pending[o] = TRUE], [h EXCEPT !.pending[o] = FALSE]}
  ELSE {[h EXCEPT !.pending[o] = TRUE]}

(* Values the uninitialized local "reader" of close_obj() may hold: stack *)
(* garbage, NULL, or a pointer left by an earlier frame.                   *)
Uninit == {Null, Garbage} \cup Objs

(* destroy_obj(o): assert(in == out), close the descriptor, free o.        *)
DestroyObj(g, o) ==
  IF g.pending[o] THEN Fault(g, "assert")
  ELSE [g EXCEPT !.fd[o] = FALSE, !.status[o] = "freed"]

(* A plausible slip: destroy_obj() called whatever the type of the object.*)
CloseTailDestroyAll(g, o) ==
  IF g.pending[o] THEN [g EXCEPT !.gotEOF[o] = TRUE]
  ELSE DestroyObj([g EXCEPT !.gotEOF[o] = FALSE, !.fd[o] = FALSE], o)

(* The tail of close_obj(): keep the descriptor open while the buffer      *)
(* holds data, otherwise close it and destroy a socket.                    *)
CloseTail(g, o) ==
  IF g.pending[o] THEN [g EXCEPT !.gotEOF[o] = TRUE]
  ELSE LET h == [g EXCEPT !.gotEOF[o] = FALSE, !.fd[o] = FALSE]
       IN IF Type(o) = "socket" THEN DestroyObj(h, o) ELSE h

RECURSIVE CloseObj(_, _, _), DrainReaders(_, _, _, _)

(* The reader loop of close_obj(): while ((reader == list_pop(readers))). *)
(* The == compares instead of assigning: each pass pops the head p, and    *)
(* the body runs only when p equals the unchanged "reader" r.              *)
DrainReaders(g, o, r, d) ==
  IF g.fault # "none" THEN {g}
  ELSE IF g.status[o] = "freed" THEN {Fault(g, "use_after_free")}
  ELSE
    LET p  == IF g.readers[o] = <<>> THEN Null ELSE Head(g.readers[o])
        g1 == [g EXCEPT !.readers[o] = IF @ = <<>> THEN @ ELSE Tail(@)]
    IN IF r # p THEN {g1}
       ELSE IF p = Null THEN {Fault(g1, "null_deref")}
       ELSE IF g1.status[p] = "freed" THEN {Fault(g1, "use_after_free")}
       ELSE IF g1.writer[p] # o THEN DrainReaders(g1, o, r, d)
       ELSE LET g2 == [g1 EXCEPT !.writer[p] = Null]
                sub == IF g2.readers[p] = <<>> THEN CloseObj(g2, p, d + 1)
                       ELSE {g2}
            IN UNION {DrainReaders(h, o, r, d) : h \in sub}

(* A plausible slip: the list_delete() of o from its writer's readers is *)
(* left out, so the writer keeps a pointer to the closed object.          *)
DetachWriterNoDelete(g, o, d) ==
  LET w == g.writer[o] IN
  IF w = Null THEN {<<g, u>> : u \in Uninit}
  ELSE IF g.status[w] = "freed" THEN {<<Fault(g, "use_after_free"), Null>>}
  ELSE {<<[g EXCEPT !.writer[o] = Null], o>>}

(* The writer part of close_obj(): unlink o from its writer w, closing w  *)
(* when it is left with neither writer nor readers.  Yields pairs of the  *)
(* resulting state and the value left in "reader".                         *)
DetachWriter(g, o, d) ==
  LET w == g.writer[o] IN
  IF w = Null THEN {<<g, u>> : u \in Uninit}
  ELSE IF g.status[w] = "freed" THEN {<<Fault(g, "use_after_free"), Null>>}
  ELSE IF o \notin ToSet(g.readers[w]) THEN {<<g, Null>>}
  ELSE
    LET g1 == [g EXCEPT !.readers[w] = RemoveFirst(@, o)]
        sub == IF g1.writer[w] = Null /\ g1.readers[w] = <<>>
               THEN CloseObj(g1, w, d + 1) ELSE {g1}
        \* list_iterator_destroy(i) on w's readers list after the cascade
        Done(h) == IF h.status[w] = "freed" THEN Fault(h, "use_after_free")
                   ELSE h
    IN {<<[Done(h) EXCEPT !.writer[o] = Null], o>> : h \in sub}

(* close_obj(o): the set of states the call can end in.                    *)
CloseObj(g, o, d) ==
  IF g.fault # "none" THEN {g}
  ELSE IF g.status[o] = "freed" THEN {Fault(g, "use_after_free")}
  ELSE IF d > MaxDepth THEN {Fault(g, "recursion")}
  ELSE LET after == UNION {DrainReaders(p[1], o, p[2], d) :
                             p \in DetachWriter(g, o, d)}
       IN {IF h.fault # "none" THEN h ELSE CloseTail(h, o) : h \in after}

(* open_obj(o): a logfile opens its file and puts the session header into *)
(* its buffer, or, when open() fails, returns -1 with nothing changed (the *)
(* caller, create_obj_link(), ignores the result); a console device is    *)
(* opened only when ConsoleOpens (the console branch is a stub).          *)
OpenObj(g, o) ==
  CASE Type(o) = "logfile" ->
         (IF LogOpenFails THEN {g} ELSE {}) \cup Put([g EXCEPT !.fd[o] = TRUE], o)
    [] Type(o) = "console" /\ ConsoleOpens -> {[g EXCEPT !.fd[o] = TRUE]}
    [] OTHER -> {g}

(* Opening an object of the link whose descriptor is closed.              *)
Activate(g, o) == IF g.fd[o] THEN {g} ELSE OpenObj(g, o)

(* A plausible slip: the steal notifies the old writer but never closes it.*)
CreateObjLinkNoClose(g, src, dst) ==
  LET w == g.writer[dst]
      stolen == IF w = Null THEN {g} ELSE Put(g, w)
      linked == {[h EXCEPT !.writer[dst] = src,
                           !.readers[src] = Append(@, dst)] : h \in stolen}
  IN UNION {UNION {Activate(h2, dst) : h2 \in Activate(h1, src)} :
              h1 \in linked}

(* create_obj_link(src, dst): steal dst from its writer W (notice into W's *)
(* buffer, close_obj(W)), link src -> dst, then activate src and dst.     *)
CreateObjLink(g, src, dst) ==
  LET w == g.writer[dst]
      stolen == IF w = Null THEN {g}
                ELSE UNION {CloseObj(h, w, 0) : h \in Put(g, w)}
      linked == {[h EXCEPT !.writer[dst] = src,
                           !.readers[src] = Append(@, dst)] : h \in stolen}
  IN UNION {UNION {Activate(h2, dst) : h2 \in Activate(h1, src)} :
              h1 \in linked}

(* Move to one of the states in S.                                         *)
SetTo(S) == \E h \in S :
  /\ writer' = h.writer /\ readers' = h.readers /\ fd' = h.fd
  /\ gotEOF' = h.gotEOF /\ pending' = h.pending /\ status' = h.status
  /\ fault' = h.fault

-----------------------------------------------------------------------------
(* create_obj(): fd -1, gotEOF clear, an empty buffer, no writer and an    *)
(* empty readers list; sockets are created only when accepted.             *)
NewObjs ==
  [writer |-> [o \in Objs |-> Null], readers |-> [o \in Objs |-> <<>>],
   fd |-> [o \in Objs |-> FALSE], gotEOF |-> [o \in Objs |-> FALSE],
   pending |-> [o \in Objs |-> FALSE],
   status |-> [o \in Objs |-> IF o \in Sockets THEN "unborn" ELSE "live"],
   fault |-> "none"]

(* The configuration: create_console_obj() and create_logfile_obj() for   *)
(* every console and logfile, each logfile then linked to its console by  *)
(* create_obj_link(console, logfile).                                      *)
ConfigState ==
  LET g0 == NewObjs
      RECURSIVE LinkAll(_, _)
      LinkAll(S, ls) == IF ls = {} THEN S
                        ELSE LET l == CHOOSE x \in ls : TRUE IN
                             LinkAll(UNION {CreateObjLink(h, LogOf[l], l) : h \in S},
                                     ls \ {l})
  IN LinkAll({g0}, Logfiles)

Init == \E h \in ConfigState :
  /\ writer = h.writer /\ readers = h.readers /\ fd = h.fd
  /\ gotEOF = h.gotEOF /\ pending = h.pending /\ status = h.status
  /\ fault = h.fault

(* The accept loop: create_socket_obj() for a new connection, which then  *)
(* follows console c (link c -> s) and, for a read-write session, writes  *)
(* to it (link s -> c, stealing c from its current writer).               *)
Accept(s, c, rw) ==
  /\ fault = "none"
  /\ status[s] = "unborn"
  /\ LET g1 == [G EXCEPT !.status[s] = "live", !.fd[s] = TRUE]
         r == CreateObjLink(g1, c, s)
     IN SetTo(IF rw THEN UNION {CreateObjLink(h, s, c) : h \in r} ELSE r)

(* read_from_obj(o), read() returned 0: close_obj(o).                      *)
ReadFromObjEOF(o) ==
  /\ fault = "none" /\ status[o] = "live" /\ fd[o]
  /\ SetTo(CloseObj(G, o, 0))

(* read_from_obj(o), read() returned data: write_obj_data() into every    *)
(* reader whose gotEOF is clear.                                           *)
ReadFromObjData(o) ==
  /\ fault = "none" /\ status[o] = "live" /\ fd[o]
  /\ LET RECURSIVE FanOut(_, _)
         FanOut(S, rs) ==
           IF rs = <<>> THEN S
           ELSE FanOut(UNION {IF Touch(h, Head(rs)).fault # "none"
                                THEN {Touch(h, Head(rs))}
                              ELSE IF h.gotEOF[Head(rs)] THEN {h}
                              ELSE Put(h, Head(rs)) : h \in S}, Tail(rs))
     IN SetTo(FanOut({G}, readers[o]))

(* write_to_obj(o): write() drains the buffer (fully, or, on a socket,    *)
(* fails with EPIPE, which sets gotEOF and flushes); then, with gotEOF set and the buffer    *)
(* empty, close_obj(o) completes the deferred close.                       *)
WriteToObj(o) ==
  /\ fault = "none" /\ status[o] = "live" /\ fd[o]
  /\ pending[o] \/ gotEOF[o]
  /\ \E epipe \in BOOLEAN :
       LET g1 == IF pending[o] /\ epipe /\ o \in Sockets
                 THEN [G EXCEPT !.gotEOF[o] = TRUE, !.pending[o] = FALSE]
                 ELSE [G EXCEPT !.pending[o] = FALSE]
       IN SetTo(IF g1.gotEOF[o] THEN CloseObj(g1, o, 0) ELSE {g1})

Next ==
  \/ \E s \in Sockets, c \in Consoles, rw \in BOOLEAN : Accept(s, c, rw)
  \/ \E o \in Consoles \cup Sockets : ReadFromObjEOF(o) \/ ReadFromObjData(o)
  \/ \E o \in Objs : WriteToObj(o)

Spec == Init /\ [][Next]_vars

-----------------------------------------------------------------------------

(* Consoles and logfiles are never destroyed by close_obj(); sockets are. *)
TypeOK ==
  /\ writer \in [Objs -> Objs \cup {Null}]
  /\ readers \in [Objs -> Seq(Objs)]
  /\ fd \in [Objs -> BOOLEAN]
  /\ gotEOF \in [Objs -> BOOLEAN]
  /\ pending \in [Objs -> BOOLEAN]
  /\ \A o \in Objs : status[o] \in IF o \in Sockets THEN {"unborn", "live", "freed"}
                                   ELSE {"live"}
  /\ fault \in {"none", "use_after_free", "null_deref", "recursion", "assert"}

Live == {o \in Objs : status[o] = "live"}

(* At most one client writes to a console: whenever a console is in the    *)
(* readers list of a live object, that object is the console's writer.    *)
(* A steal in create_obj_link() must take the console out of the old      *)
(* writer's readers (through close_obj()) before the new link is made.    *)
FeederIsWriter ==
  \A c \in Consoles, o \in Live : c \in ToSet(readers[o]) => writer[c] = o

(* spec.md 3 and 8: the writer/readers edge is bidirectional.  A live    *)
(* object's writer is a live object that lists it exactly once among its  *)
(* readers, and every object a live object lists as a reader has it as    *)
(* writer.  close_obj() must restore this when it unlinks an object.      *)
EdgeSymmetry ==
  /\ \A a \in Live : writer[a] # Null =>
        /\ writer[a] \in Live
        /\ Cardinality({i \in DOMAIN readers[writer[a]] : readers[writer[a]][i] = a}) = 1
  /\ \A b \in Live : \A a \in ToSet(readers[b]) : writer[a] = b

(* close_obj(), create_obj_link() and read_from_obj() never touch a        *)
(* destroyed socket, e.g. through a console's writer pointer.              *)
NoUseAfterFree == fault # "use_after_free"

(* close_obj() never dereferences NULL in its reader loop.                 *)
NoNullDeref == fault # "null_deref"

=============================================================================
