------------------------------ MODULE Handles ------------------------------
(***************************************************************************)
(* What a handle can do and how it may be asked and changed: GetSetFdFlags *)
(* (src/fs/fd_flags.rs) on POSIX, where users share the flags of one open  *)
(* file description, and on Windows, where set_fd_flags puts a reopened    *)
(* handle in the place of the old one; and IsReadWrite                     *)
(* (src/io/is_read_write.rs), which on a Windows socket takes two probes.  *)
(*                                                                         *)
(* An object is what a handle refers to: an open file description, a       *)
(* Windows file object or a socket.  DSYNC stands for DSYNC and SYNC.      *)
(***************************************************************************)
EXTENDS FileData

CONSTANTS
  Objects,   (* the objects that may be open at once                      *)
  Setups,    (* platform, access and flags of the object users start with *)
             (* and, in does, which calls they make on it                 *)
  Requests   (* values users pass to new_set_fd_flags                     *)

Rights == {"READ", "WRITE", "APPEND"}
FdFlags == {"APPEND", "NONBLOCK", "DSYNC"}

ASSUME HandlesAssumption ==
  /\ Requests \subseteq SUBSET FdFlags
  /\ \A s \in Setups :
       /\ s.kind \in {"posix", "windows", "socket"}
       /\ s.access \subseteq Rights /\ s.access # {} /\ s.flags \subseteq Flags
       /\ s.kind = "socket" => s.access \subseteq {"READ", "WRITE"}

VARIABLES
  setup,    (* how the object was opened                                  *)
  object,   (* access and flags of each object, its position, and in set  *)
            (* the flags last asked for it                                *)
  handle,   (* the object each user's handle refers to                    *)
  token,    (* the SetFdFlags each user holds: the flags it will set and, *)
            (* on Windows, the object it has reopened                     *)
  probe     (* where each user's is_read_write of a socket is             *)

handleVars == <<setup, object, handle, token, probe>>

Opened(access, flags, set) == [access |-> access, flags |-> flags, pos |-> 0, set |-> set]
Closed == Opened({}, {}, {})

NoToken == [held |-> FALSE]
NoProbe == [pc |-> "idle"]

\* Objects no handle and no token refers to.
Unused ==
  {o \in Objects : \A u \in Users : handle[u] # o /\ (token[u].held => token[u].object # o)}

-----------------------------------------------------------------------------
(***************************************************************************)
(* What an object reports: get_fd_flags and is_read_write                  *)
(***************************************************************************)

PosixFlags(flags) == flags \cap FdFlags

\* FILE_APPEND_DATA without FILE_WRITE_DATA is append mode.
WindowsFlags(access, flags) ==
  {f \in {"APPEND"} : "APPEND" \in access /\ "WRITE" \notin access} \cup (flags \cap {"DSYNC"})

GetFdFlags(access, flags) ==
  IF setup.kind = "windows" THEN WindowsFlags(access, flags) ELSE PosixFlags(flags)

CanRead(access) == "READ" \in access

\* Mutant of CanWrite: an append-only handle is none to write with.
MutantWriteData(access) == "WRITE" \in access

CanWrite(access) == access \cap {"WRITE", "APPEND"} # {}

-----------------------------------------------------------------------------
(***************************************************************************)
(* new_set_fd_flags and set_fd_flags                                       *)
(***************************************************************************)

MayAskFlags(kind, u) == setup.kind = kind /\ "flags" \in setup.does /\ ~token[u].held

\* On POSIX the sync flags are refused, and the token is the other two.
NewSetFdFlagsPosix(u) ==
  /\ MayAskFlags("posix", u)
  /\ \E F \in Requests :
       /\ "DSYNC" \notin F
       /\ token' = [token EXCEPT ![u] = [held |-> TRUE, set |-> F, object |-> handle[u]]]
  /\ UNCHANGED <<setup, object, handle, probe>>

\* Mutant of SetFlags: the flags are added to those that are set.
MutantAddFlags(o, F) == [o EXCEPT !.flags = @ \cup F, !.set = F]

\* fcntl(F_SETFL)
SetFlags(o, F) == [o EXCEPT !.flags = SetFl(@, F), !.set = F]

SetFdFlagsPosix(u) ==
  /\ setup.kind = "posix" /\ token[u].held
  /\ object' = [object EXCEPT ![handle[u]] = SetFlags(@, token[u].set)]
  /\ token' = [token EXCEPT ![u] = NoToken]
  /\ UNCHANGED <<setup, handle, probe>>

\* file_access_mode_from_fd_flags
AccessMode(F, read, write) ==
  {r \in {"READ"} : read} \cup {r \in {"WRITE"} : write /\ "APPEND" \notin F}
    \cup {r \in {"APPEND"} : write \/ "APPEND" \in F}

\* On Windows the file is reopened with what the handle can do now; the
\* reopened handle is the token.
NewSetFdFlagsWindows(u) ==
  /\ MayAskFlags("windows", u)
  /\ \E F \in Requests, o \in Unused :
       LET old == object[handle[u]].access IN
       /\ token' = [token EXCEPT ![u] = [held |-> TRUE, set |-> F, object |-> o]]
       /\ object' = [object EXCEPT ![o] =
                       Opened(AccessMode(F, CanRead(old), CanWrite(old)), F \cap {"DSYNC"}, F)]
  /\ UNCHANGED <<setup, handle, probe>>

\* Mutant of SetFdFlagsWindows: the object is closed whoever refers to it.
MutantCloseShared(u) ==
  /\ setup.kind = "windows" /\ token[u].held
  /\ handle' = [handle EXCEPT ![u] = token[u].object]
  /\ object' = [object EXCEPT ![handle[u]] = Closed]
  /\ token' = [token EXCEPT ![u] = NoToken]
  /\ UNCHANGED <<setup, probe>>

\* *self = reopened drops the old handle; its object is closed with the last.
SetFdFlagsWindows(u) ==
  /\ setup.kind = "windows" /\ token[u].held
  /\ handle' = [handle EXCEPT ![u] = token[u].object]
  /\ object' = IF \E v \in Users \ {u} : handle[v] = handle[u]
               THEN object
               ELSE [object EXCEPT ![handle[u]] = Closed]
  /\ token' = [token EXCEPT ![u] = NoToken]
  /\ UNCHANGED <<setup, probe>>

\* The token is dropped unused, or F_SETFL fails.
DropToken(u) ==
  /\ token[u].held
  /\ token' = [token EXCEPT ![u] = NoToken]
  /\ object' = IF setup.kind = "windows"
               THEN [object EXCEPT ![token[u].object] = Closed] ELSE object
  /\ UNCHANGED <<setup, handle, probe>>

-----------------------------------------------------------------------------
(***************************************************************************)
(* is_read_write of a Windows socket                                       *)
(***************************************************************************)

\* A side is shut down by a user or by a reset, and stays so.
Shutdown(u) ==
  /\ setup.kind = "socket"
  /\ \E side \in object[handle[u]].access :
       object' = [object EXCEPT ![handle[u]].access = @ \ {side}]
  /\ UNCHANGED <<setup, handle, token, probe>>

\* Mutant of SendProbe: WSAESHUTDOWN answers at once.
MutantReturnEarly(u) ==
  /\ setup.kind = "socket" /\ probe[u].pc = "idle"
  /\ LET sides == object[handle[u]].access IN
     probe' = [probe EXCEPT ![u] =
                 [pc |-> IF CanWrite(sides) THEN "sent" ELSE "done",
                  sides |-> sides, read |-> TRUE, write |-> CanWrite(sides)]]
  /\ UNCHANGED <<setup, object, handle, token>>

\* A zero-length send tells whether the write side is shut down; any error
\* but WSAESHUTDOWN and WSAEWOULDBLOCK ends the call, which changes nothing.
SendProbe(u) ==
  /\ setup.kind = "socket" /\ probe[u].pc = "idle"
  /\ LET sides == object[handle[u]].access IN
     probe' = [probe EXCEPT ![u] =
                 [pc |-> "sent", sides |-> sides, read |-> TRUE, write |-> CanWrite(sides)]]
  /\ UNCHANGED <<setup, object, handle, token>>

\* A peek into a bad buffer tells whether the read side is.
RecvProbe(u) ==
  /\ probe[u].pc = "sent"
  /\ \/ probe' = [probe EXCEPT ![u].pc = "done", ![u].read = CanRead(object[handle[u]].access)]
     \/ probe' = [probe EXCEPT ![u] = NoProbe]
  /\ UNCHANGED <<setup, object, handle, token>>

ProbeAnswers(u) ==
  /\ probe[u].pc = "done"
  /\ probe' = [probe EXCEPT ![u] = NoProbe]
  /\ UNCHANGED <<setup, object, handle, token>>

-----------------------------------------------------------------------------

HandlesInit ==
  /\ setup \in Setups
  /\ \E first \in Objects :
       /\ handle = [u \in Users |-> first]
       /\ object = [o \in Objects |->
                      IF o # first THEN Closed
                      ELSE Opened(setup.access, setup.flags,
                                  GetFdFlags(setup.access, setup.flags))]
  /\ token = [u \in Users |-> NoToken]
  /\ probe = [u \in Users |-> NoProbe]

FlagsCall(u) ==
  \/ NewSetFdFlagsPosix(u) \/ SetFdFlagsPosix(u)
  \/ NewSetFdFlagsWindows(u) \/ SetFdFlagsWindows(u) \/ DropToken(u)

SocketCall(u) == Shutdown(u) \/ SendProbe(u) \/ RecvProbe(u) \/ ProbeAnswers(u)

-----------------------------------------------------------------------------
(***************************************************************************)
(* Properties                                                              *)
(***************************************************************************)

\* Every variable has its type; no handle and no token is left with an object
\* that another user's set_fd_flags closed, and no two tokens share one
\* (fd_flags.rs:196-205).
HandlesTypeOK ==
  /\ setup \in Setups
  /\ \A o \in Objects : /\ object[o].access \subseteq Rights
                        /\ object[o].flags \subseteq Flags
                        /\ object[o].set \subseteq FdFlags
  /\ handle \in [Users -> Objects]
  /\ \A u \in Users : probe[u].pc \in {"idle", "sent", "done"}
  /\ setup.kind # "socket" => \A u \in Users : object[handle[u]] # Closed
  /\ setup.kind = "windows" =>
       \A u, v \in Users : token[u].held =>
         /\ object[token[u].object] # Closed /\ token[u].object # handle[v]
         /\ token[v].held /\ token[v].object = token[u].object => u = v

\* get_fd_flags reports the flags of the last set_fd_flags on the object, the
\* ones the platform can set: however sets of several users interleave, it is
\* one user's whole choice, and on POSIX the sync flags stay what they were
\* (fd_flags.rs:84-113, 141-144, 154-172, 181-197).
FlagsInForce ==
  \A u \in Users :
    LET o == object[handle[u]] IN
    GetFdFlags(o.access, o.flags) =
      IF setup.kind = "windows" THEN o.set \ {"NONBLOCK"}
      ELSE (o.set \ {"DSYNC"}) \cup (setup.flags \cap {"DSYNC"})

\* No sequence of sets takes from a handle what the file was opened for: the
\* access recomputed from the last handle, APPEND set and cleared, keeps the
\* right to write (fd_flags.rs:186-193, 222-235).
KeepsCapability ==
  setup.kind # "socket" =>
    \A u \in Users :
      LET access == object[handle[u]].access IN
      /\ CanRead(access) <=> CanRead(setup.access)
      /\ setup.access \cap {"WRITE", "APPEND"} # {} => access \cap {"WRITE", "APPEND"} # {}

\* The two probes are not one instant, but each half of the answer lies
\* between the call and its answer: a side shut down before the call is
\* reported so, one still open after it is reported open
\* (is_read_write.rs:128-154).
ProbeBetween ==
  \A u \in Users : probe[u].pc = "done" =>
    LET now == object[handle[u]].access IN
    /\ probe[u].read => "READ" \in probe[u].sides
    /\ probe[u].write => "WRITE" \in probe[u].sides
    /\ "READ" \in now => probe[u].read
    /\ "WRITE" \in now => probe[u].write

=============================================================================
