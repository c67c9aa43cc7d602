------------------------------ MODULE OpenFile ------------------------------
(***************************************************************************)
(* What FileIoExt::append and append_vectored promise the users of one     *)
(* open file description: a call takes effect at one instant between its   *)
(* request and its response, at that instant it puts some of its bytes at  *)
(* the end of the file or fails having written nothing, and it never       *)
(* moves the position nor touches the status flags.  The other operations  *)
(* on the description take effect at once.                                 *)
(***************************************************************************)
EXTENDS FileData

CONSTANTS
  BufLens,         (* lengths of the buffers users pass                   *)
  SeekTargets,     (* offsets users seek to and write at                  *)
  SettableTo,      (* FdFlags values users pass to set_fd_flags           *)
  InitialContent,  (* contents the file may start with                    *)
  InitialStatus    (* status flags the file may have been opened with     *)

VARIABLES
  content,    (* the bytes of the file                                    *)
  position,   (* the current position of the description                  *)
  status,     (* its status flags                                         *)
  asked,      (* asked[u]: bytes in the buffer of u's append              *)
  call,       (* call[u]: is an append of u absent, open or answered      *)
  outcome     (* outcome[u]: what u's answered append returns             *)

vars == <<content, position, status, asked, call, outcome>>

Done(n) == [ok |-> TRUE, n |-> n]
Failed == [ok |-> FALSE, n |-> 0]

Init ==
  /\ content \in InitialContent
  /\ position \in SeekTargets
  /\ status \in InitialStatus
  /\ asked = [u \in Users |-> 0]
  /\ call = [u \in Users |-> "none"]
  /\ outcome = [u \in Users |-> Done(0)]

Request(u) ==
  /\ call[u] = "none"
  /\ call' = [call EXCEPT ![u] = "open"]
  /\ \E n \in BufLens : asked' = [asked EXCEPT ![u] = n]
  /\ UNCHANGED <<content, position, status, outcome>>

\* The instant the bytes of u reach the end of the file.
AppendBytes(u) ==
  /\ call[u] = "open"
  /\ call' = [call EXCEPT ![u] = "answered"]
  /\ \E k \in Accepted(asked[u], Len(content)) :
       /\ content' = Splice(content, Len(content), u, k)
       /\ outcome' = [outcome EXCEPT ![u] = Done(k)]
  /\ UNCHANGED <<position, status, asked>>

Refuse(u) ==
  /\ call[u] = "open"
  /\ call' = [call EXCEPT ![u] = "answered"]
  /\ outcome' = [outcome EXCEPT ![u] = Failed]
  /\ UNCHANGED <<content, position, status, asked>>

Respond(u) ==
  /\ call[u] = "answered"
  /\ call' = [call EXCEPT ![u] = "none"]
  /\ asked' = [asked EXCEPT ![u] = 0]
  /\ outcome' = [outcome EXCEPT ![u] = Done(0)]
  /\ UNCHANGED <<content, position, status>>

WriteAtPosition(u) ==
  /\ \E n \in BufLens : LET at == WriteOffset(status, position, content) IN
       \E k \in Accepted(n, at) :
         /\ content' = Splice(content, at, u, k)
         /\ position' = PosAfter(position, at, k)
  /\ UNCHANGED <<status, asked, call, outcome>>

WriteAtOffset(u) ==
  /\ \E n \in BufLens, off \in SeekTargets :
       LET at == WriteOffset(status, off, content) IN
       \E k \in Accepted(n, at) : content' = Splice(content, at, u, k)
  /\ UNCHANGED <<position, status, asked, call, outcome>>

Reposition ==
  /\ position' \in SeekTargets \cup {Len(content)}
  /\ UNCHANGED <<content, status, asked, call, outcome>>

ChangeStatus ==
  /\ \E arg \in SettableTo : status' = SetFl(status, arg)
  /\ UNCHANGED <<content, position, asked, call, outcome>>

\* Someone who holds another description of the file changes its length.
ResizeElsewhere ==
  /\ \E n \in 0 .. MaxLen : content' = Resize(content, n)
  /\ UNCHANGED <<position, status, asked, call, outcome>>

Next ==
  \/ \E u \in Users :
       \/ Request(u) \/ AppendBytes(u) \/ Refuse(u) \/ Respond(u)
       \/ WriteAtPosition(u) \/ WriteAtOffset(u)
  \/ Reposition
  \/ ChangeStatus
  \/ ResizeElsewhere

Spec == Init /\ [][Next]_vars

=============================================================================
