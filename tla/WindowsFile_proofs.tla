------------------------- MODULE WindowsFile_proofs -------------------------
(***************************************************************************)
(* Theorems about the handles of WindowsFile, for every set of users, of   *)
(* objects, of requests and of setups.                                     *)
(***************************************************************************)
EXTENDS WindowsFile, TLAPS

-----------------------------------------------------------------------------
(***************************************************************************)
(* The inductive invariant                                                 *)
(***************************************************************************)

Token == [held : {TRUE}, set : Requests, object : Objects]
Probe == [pc : {"sent", "done"}, sides : SUBSET Rights, read : BOOLEAN, write : BOOLEAN]

\* A record of an object; nothing here depends on its position.
IsObject(o) ==
  o \in [access : SUBSET Rights, flags : SUBSET Flags, pos : {o.pos}, set : SUBSET FdFlags]
AllObjects(f) == f = [x \in Objects |-> f[x]] /\ \A x \in Objects : IsObject(f[x])

\* The type of each variable.
HType ==
  /\ setup \in Setups
  /\ AllObjects(object)
  /\ handle \in [Users -> Objects]
  /\ token \in [Users -> {NoToken} \cup Token]
  /\ probe \in [Users -> {NoProbe} \cup Probe]

\* A reopened object belongs to one token, and no handle refers to it yet.
HFresh ==
  setup.kind = "windows" =>
    \A u, v \in Users : token[u].held =>
      /\ token[u].object # handle[v]
      /\ token[v].held /\ token[v].object = token[u].object => u = v

\* What holds of an object in use: it reports the flags last set on it, and it
\* can do what the file was opened for.
ReportsSet(o) ==
  IF setup.kind = "windows"
  THEN WindowsFlags(o.access, o.flags) = o.set \ {"NONBLOCK"}
  ELSE /\ PosixFlags(o.flags) = (o.set \ {"DSYNC"}) \cup (setup.flags \cap {"DSYNC"})
       /\ "DSYNC" \in o.flags <=> "DSYNC" \in setup.flags

Capable(o) ==
  setup.kind # "socket" =>
    /\ CanRead(o.access) <=> CanRead(setup.access)
    /\ CanWrite(setup.access) => CanWrite(o.access)

Good(o) == ReportsSet(o) /\ Capable(o)

HLive ==
  \A u \in Users :
    /\ Good(object[handle[u]])
    /\ setup.kind = "windows" /\ token[u].held => Good(object[token[u].object])

\* Tokens are made on files, without the sync flags on POSIX.
HTokens ==
  \A u \in Users : token[u].held =>
    /\ setup.kind # "socket"
    /\ setup.kind = "posix" => "DSYNC" \notin token[u].set

\* A socket has two sides at most; a probe saw no fewer than it has now.
HProbe ==
  \A u \in Users :
    /\ setup.kind = "socket" => object[handle[u]].access \subseteq {"READ", "WRITE"}
    /\ probe[u] # NoProbe =>
         /\ setup.kind = "socket"
         /\ probe[u].sides \subseteq {"READ", "WRITE"}
         /\ object[handle[u]].access \subseteq probe[u].sides
         /\ probe[u].write <=> "WRITE" \in probe[u].sides
         /\ probe[u].pc = "done" =>
              /\ probe[u].read => "READ" \in probe[u].sides
              /\ "READ" \in object[handle[u]].access => probe[u].read

HInv == HType /\ HFresh /\ HLive /\ HTokens /\ HProbe

-----------------------------------------------------------------------------
(***************************************************************************)
(* Lemmas about the operators                                              *)
(***************************************************************************)

\* A token's record is not that of no token, nor a probe's that of no probe.
LEMMA Records ==
  /\ ~NoToken.held
  /\ \A t \in {NoToken} \cup Token : t.held => t \in Token
  /\ \A p \in {NoProbe} \cup Probe : p.pc # "idle" => p \in Probe /\ p # NoProbe
  /\ \A p \in Probe : p # NoProbe /\ p.pc # "idle"
  /\ NoProbe.pc = "idle"
<1>1. ~NoToken.held /\ NoProbe.pc = "idle"
  BY DEF NoToken, NoProbe
<1>2. \A t \in {NoToken} \cup Token : t.held => t \in Token
  BY <1>1
<1>3. \A p \in Probe : p.pc # "idle"
  BY DEF Probe
<1>4. QED
  BY <1>1, <1>2, <1>3

\* An object just opened has its type.
LEMMA OpenedType ==
  ASSUME NEW a \in SUBSET Rights, NEW f \in SUBSET Flags, NEW s \in SUBSET FdFlags
  PROVE  IsObject(Opened(a, f, s))
BY DEF Opened, IsObject

\* Whatever flags are asked for, the access asked of the reopened handle keeps
\* the right to read and the right to write, and tells append mode.
LEMMA AccessModeKeeps ==
  ASSUME NEW F \in SUBSET FdFlags, NEW read \in BOOLEAN, NEW write \in BOOLEAN
  PROVE  /\ AccessMode(F, read, write) \in SUBSET Rights
         /\ CanRead(AccessMode(F, read, write)) <=> read
         /\ write => CanWrite(AccessMode(F, read, write))
         /\ WindowsFlags(AccessMode(F, read, write), F \cap {"DSYNC"}) = F \ {"NONBLOCK"}
<1> DEFINE A == AccessMode(F, read, write)
<1>1. /\ "READ" \in A <=> read
      /\ "WRITE" \in A <=> write /\ "APPEND" \notin F
      /\ "APPEND" \in A <=> write \/ "APPEND" \in F
      /\ A \subseteq {"READ", "WRITE", "APPEND"}
  BY DEF AccessMode
<1> HIDE DEF A
<1>2. A \in SUBSET Rights /\ (CanRead(A) <=> read) /\ (write => CanWrite(A))
  BY <1>1 DEF Rights, CanRead, CanWrite
<1>3. WindowsFlags(A, F \cap {"DSYNC"}) = F \ {"NONBLOCK"}
  BY <1>1 DEF WindowsFlags, FdFlags
<1>4. QED
  BY <1>2, <1>3 DEF A

\* The object a token reopens from a good one is good.
LEMMA ReopenedGood ==
  ASSUME setup.kind = "windows", NEW o, IsObject(o), Capable(o), NEW F \in SUBSET FdFlags
  PROVE  LET new == Opened(AccessMode(F, CanRead(o.access), CanWrite(o.access)),
                           F \cap {"DSYNC"}, F)
         IN IsObject(new) /\ Good(new)
<1> DEFINE A == AccessMode(F, CanRead(o.access), CanWrite(o.access))
<1>1. CanRead(o.access) \in BOOLEAN /\ CanWrite(o.access) \in BOOLEAN
  BY DEF CanRead, CanWrite
<1>2. /\ A \in SUBSET Rights
      /\ CanRead(A) <=> CanRead(o.access)
      /\ CanWrite(o.access) => CanWrite(A)
      /\ WindowsFlags(A, F \cap {"DSYNC"}) = F \ {"NONBLOCK"}
  BY <1>1, AccessModeKeeps
<1>3. F \cap {"DSYNC"} \in SUBSET Flags
  BY DEF FdFlags, Flags
<1> HIDE DEF A
<1>4. IsObject(Opened(A, F \cap {"DSYNC"}, F))
  BY <1>2, <1>3, OpenedType
<1>5. Good(Opened(A, F \cap {"DSYNC"}, F))
  BY <1>2 DEF Good, ReportsSet, Capable, Opened
<1>6. QED
  BY <1>4, <1>5 DEF A

\* F_SETFL leaves a good object good.
LEMMA SetFlagsGood ==
  ASSUME setup.kind = "posix", NEW o, IsObject(o), Good(o),
         NEW F \in SUBSET FdFlags, "DSYNC" \notin F
  PROVE  IsObject(SetFlags(o, F)) /\ Good(SetFlags(o, F))
<1>1. SetFlags(o, F) = [o EXCEPT !.flags = SetFl(o.flags, F), !.set = F]
  BY DEF SetFlags
<1>2. SetFl(o.flags, F) \in SUBSET Flags
  BY DEF SetFl, Settable, Flags, FdFlags, IsObject
<1>3. IsObject(SetFlags(o, F))
  BY <1>1, <1>2 DEF IsObject
<1>4. /\ SetFlags(o, F).flags = SetFl(o.flags, F)
      /\ SetFlags(o, F).set = F
      /\ SetFlags(o, F).access = o.access
  BY <1>1 DEF IsObject
<1>5. "DSYNC" \in SetFl(o.flags, F) <=> "DSYNC" \in o.flags
  BY DEF SetFl, Settable, Flags
<1>6. PosixFlags(SetFl(o.flags, F)) = F \cup (o.flags \cap {"DSYNC"})
  BY DEF PosixFlags, SetFl, Settable, Flags, FdFlags
<1>7. QED
  BY <1>3, <1>4, <1>5, <1>6 DEF Good, ReportsSet, Capable

-----------------------------------------------------------------------------
(***************************************************************************)
(* It is inductive: the calls on the flags                                 *)
(***************************************************************************)

LEMMA InitHolds == Init => HInv
<1> SUFFICES ASSUME Init PROVE HInv
  OBVIOUS
<1> USE DEF Init, HandlesInit
<1>1. PICK first \in Objects :
        /\ handle = [u \in Users |-> first]
        /\ object = [o \in Objects |->
                       IF o # first THEN Closed
                       ELSE Opened(setup.access, setup.flags,
                                   GetFdFlags(setup.access, setup.flags))]
  OBVIOUS
<1>2. /\ setup \in Setups /\ setup.access \in SUBSET Rights /\ setup.flags \in SUBSET Flags
      /\ setup.kind = "socket" => setup.access \subseteq {"READ", "WRITE"}
  BY HandlesAssumption
<1> DEFINE reported == GetFdFlags(setup.access, setup.flags)
           o1 == Opened(setup.access, setup.flags, reported)
<1>3. reported \in SUBSET FdFlags
  BY DEF GetFdFlags, WindowsFlags, PosixFlags, FdFlags
<1>4. IsObject(o1) /\ IsObject(Closed)
  <2>1. IsObject(o1)
    BY <1>2, <1>3, OpenedType
  <2>2. IsObject(Closed)
    BY OpenedType DEF Closed
  <2>3. QED
    BY <2>1, <2>2
<1>5. o1.access = setup.access /\ o1.flags = setup.flags /\ o1.set = reported
  BY DEF Opened
<1>6. ReportsSet(o1)
  <2>1. CASE setup.kind = "windows"
    BY <2>1, <1>5 DEF ReportsSet, GetFdFlags, WindowsFlags
  <2>2. CASE setup.kind # "windows"
    BY <2>2, <1>5 DEF ReportsSet, GetFdFlags, PosixFlags, FdFlags
  <2>3. QED
    BY <2>1, <2>2
<1>7. Good(o1)
  BY <1>5, <1>6 DEF Good, Capable
<1> HIDE DEF o1, reported
<1>8. \A u \in Users : object[handle[u]] = o1 /\ token[u] = NoToken /\ probe[u] = NoProbe
  BY <1>1 DEF o1, reported
<1>9. HType
  BY <1>1, <1>2, <1>4 DEF HType, AllObjects, o1, reported
<1>10. HFresh /\ HLive /\ HTokens
  BY <1>7, <1>8, Records DEF HFresh, HLive, HTokens
<1>11. HProbe
  BY <1>2, <1>5, <1>8 DEF HProbe
<1>12. QED
  BY <1>9, <1>10, <1>11 DEF HInv

\* A step that leaves setup alone and changes no object, handle or token keeps
\* what is said of them.
LEMMA SameLive ==
  ASSUME HInv, UNCHANGED <<setup, object, handle, token>>
  PROVE  HFresh' /\ HLive' /\ HTokens'
BY DEF HInv, HFresh, HLive, HTokens, Good, ReportsSet, Capable

LEMMA HStutter == HInv /\ UNCHANGED handleVars => HInv'
<1> SUFFICES ASSUME HInv, UNCHANGED handleVars PROVE HInv'
  OBVIOUS
<1>1. HFresh' /\ HLive' /\ HTokens'
  BY SameLive DEF handleVars
<1>2. HType' /\ HProbe'
  BY DEF HInv, HType, AllObjects, HProbe, handleVars
<1>3. QED
  BY <1>1, <1>2 DEF HInv

\* Moving the position of a handle changes nothing that matters here.
LEMMA MovedStep ==
  ASSUME HInv, NEW u \in Users, NEW p,
         object' = [object EXCEPT ![handle[u]].pos = p],
         UNCHANGED <<setup, handle, token, probe>>
  PROVE  HInv'
<1>1. /\ AllObjects(object')
      /\ \A o \in Objects : /\ object'[o].access = object[o].access
                            /\ object'[o].flags = object[o].flags
                            /\ object'[o].set = object[o].set
  BY DEF HInv, HType, AllObjects, IsObject
<1>2. \A v \in Users : /\ handle[v] \in Objects
                       /\ token[v].held => token[v].object \in Objects
  BY Records DEF HInv, HType, AllObjects, Token
<1>3. HType' /\ HFresh' /\ HTokens'
  BY <1>1 DEF HInv, HType, AllObjects, HFresh, HTokens
<1>4. HLive'
  <2>1. \A x \in Objects : Good(object[x]) => Good(object'[x])
    BY <1>1 DEF Good, ReportsSet, Capable
  <2>2. \A v \in Users :
          /\ Good(object'[handle'[v]])
          /\ setup.kind = "windows" /\ token'[v].held => Good(object'[token'[v].object])
    BY <1>2, <2>1 DEF HInv, HLive
  <2>3. QED
    BY <2>2 DEF HLive, Good, ReportsSet, Capable
<1>5. HProbe'
  <2>1. \A v \in Users : object'[handle'[v]].access = object[handle[v]].access
    BY <1>1, <1>2
  <2>2. QED
    BY <2>1 DEF HInv, HProbe
<1>6. QED
  BY <1>3, <1>4, <1>5 DEF HInv

\* On files no probe is under way.
LEMMA NoProbes ==
  ASSUME HInv, setup.kind # "socket", UNCHANGED <<setup, probe>>
  PROVE  HProbe'
BY DEF HInv, HProbe

LEMMA NewPosixStep ==
  ASSUME HInv, NEW u \in Users, NewSetFdFlagsPosix(u)
  PROVE  HInv'
<1> USE DEF NewSetFdFlagsPosix, MayAskFlags
<1>1. PICK F \in Requests :
        /\ "DSYNC" \notin F
        /\ token' = [token EXCEPT ![u] = [held |-> TRUE, set |-> F, object |-> handle[u]]]
  OBVIOUS
<1>2. [held |-> TRUE, set |-> F, object |-> handle[u]] \in Token
  BY DEF HInv, HType, AllObjects, Token
<1>3. HType'
  BY <1>1, <1>2 DEF HInv, HType, AllObjects
<1>4. HFresh' /\ HLive'
  BY DEF HInv, HFresh, HLive, Good, ReportsSet, Capable
<1>5. HTokens'
  <2> SUFFICES ASSUME NEW v \in Users, token'[v].held
               PROVE  /\ setup.kind # "socket"
                      /\ setup.kind = "posix" => "DSYNC" \notin token'[v].set
    BY DEF HTokens
  <2>1. CASE v = u
    BY <1>1, <2>1 DEF HInv, HType, AllObjects
  <2>2. CASE v # u
    BY <1>1, <2>2 DEF HInv, HType, AllObjects, HTokens
  <2>3. QED
    BY <2>1, <2>2
<1>6. HProbe'
  BY NoProbes
<1>7. QED
  BY <1>3, <1>4, <1>5, <1>6 DEF HInv

LEMMA SetPosixStep ==
  ASSUME HInv, NEW u \in Users, SetFdFlagsPosix(u)
  PROVE  HInv'
<1> USE DEF SetFdFlagsPosix
<1> DEFINE F == token[u].set
           new == SetFlags(object[handle[u]], F)
<1>1. F \in SUBSET FdFlags /\ "DSYNC" \notin F
  <2>1. token[u] \in Token
    BY Records DEF HInv, HType, AllObjects
  <2>2. F \in SUBSET FdFlags
    BY <2>1, HandlesAssumption DEF Token
  <2>3. QED
    BY <2>2 DEF HInv, HTokens
<1>2. IsObject(object[handle[u]]) /\ Good(object[handle[u]]) /\ handle[u] \in Objects
  BY DEF HInv, HType, AllObjects, HLive
<1>3. IsObject(new) /\ Good(new)
  <2> HIDE DEF F
  <2>1. QED
    BY <1>1, <1>2, SetFlagsGood
<1>4. object' = [object EXCEPT ![handle[u]] = new]
  OBVIOUS
<1> HIDE DEF new
<1>5. HType'
  BY <1>3, <1>4, Records DEF HInv, HType, AllObjects
<1>6. HFresh'
  BY DEF HFresh
<1>7. HLive'
  <2>1. \A v \in Users : object'[handle'[v]] \in {new, object[handle[v]]}
    BY <1>2, <1>4 DEF HInv, HType, AllObjects
  <2>2. \A v \in Users : Good(object'[handle'[v]])
    BY <1>3, <2>1 DEF HInv, HLive
  <2>3. QED
    BY <2>2 DEF HLive, Good, ReportsSet, Capable
<1>8. HTokens'
  <2>1. \A v \in Users : token'[v] = NoToken \/ token'[v] = token[v]
    BY DEF HInv, HType, AllObjects
  <2>2. QED
    BY <2>1, Records DEF HInv, HTokens
<1>9. HProbe'
  BY NoProbes
<1>10. QED
  BY <1>5, <1>6, <1>7, <1>8, <1>9 DEF HInv

LEMMA NewWindowsStep ==
  ASSUME HInv, NEW u \in Users, NewSetFdFlagsWindows(u)
  PROVE  HInv'
<1> USE DEF NewSetFdFlagsWindows, MayAskFlags
<1> DEFINE old == object[handle[u]]
           reopened(F) == Opened(AccessMode(F, CanRead(old.access), CanWrite(old.access)),
                                 F \cap {"DSYNC"}, F)
<1>1. PICK F \in Requests, o \in Unused :
        /\ token' = [token EXCEPT ![u] = [held |-> TRUE, set |-> F, object |-> o]]
        /\ object' = [object EXCEPT ![o] = reopened(F)]
  OBVIOUS
<1>2. /\ o \in Objects
      /\ \A v \in Users : handle[v] # o /\ (token[v].held => token[v].object # o)
  BY DEF Unused
<1>3. IsObject(reopened(F)) /\ Good(reopened(F))
  <2>1. IsObject(old) /\ Capable(old) /\ F \in SUBSET FdFlags
    BY HandlesAssumption DEF HInv, HType, AllObjects, HLive, Good
  <2> HIDE DEF old
  <2>2. QED
    BY <2>1, ReopenedGood
<1> HIDE DEF reopened
<1> DEFINE t == [held |-> TRUE, set |-> F, object |-> o]
<1>4. t \in Token /\ t.held /\ t.object = o
  BY <1>2 DEF Token
<1> HIDE DEF t
<1>5. token' = [token EXCEPT ![u] = t]
  BY <1>1 DEF t
<1>6. /\ token'[u] = t
      /\ \A v \in Users : v # u => token'[v] = token[v]
      /\ object'[o] = reopened(F)
      /\ \A x \in Objects : x # o => object'[x] = object[x]
  BY <1>1, <1>2, <1>5 DEF HInv, HType, AllObjects
<1>7. HType'
  <2>1. AllObjects(object')
    BY <1>1, <1>3 DEF HInv, HType, AllObjects
  <2>2. token' \in [Users -> {NoToken} \cup Token]
    BY <1>4, <1>5 DEF HInv, HType, AllObjects
  <2>3. setup' = setup /\ handle' = handle /\ probe' = probe
    OBVIOUS
  <2>4. QED
    BY <2>1, <2>2, <2>3 DEF HInv, HType, AllObjects
<1>8. HFresh'
  <2> SUFFICES ASSUME NEW v \in Users, NEW w \in Users, token'[v].held
               PROVE  /\ token'[v].object # handle[w]
                      /\ token'[w].held /\ token'[w].object = token'[v].object => v = w
    BY DEF HFresh
  <2>1. CASE v = u
    BY <2>1, <1>2, <1>4, <1>6
  <2>2. CASE v # u
    BY <2>2, <1>2, <1>4, <1>6 DEF HInv, HFresh
  <2>3. QED
    BY <2>1, <2>2
<1>9. HLive'
  <2>1. \A v \in Users : object'[handle'[v]] = object[handle[v]]
    BY <1>2, <1>6 DEF HInv, HType, AllObjects
  <2>2. \A v \in Users : token'[v].held => Good(object'[token'[v].object])
    <3> SUFFICES ASSUME NEW v \in Users, token'[v].held
                 PROVE  Good(object'[token'[v].object])
      OBVIOUS
    <3>1. CASE v = u
      BY <3>1, <1>3, <1>4, <1>6
    <3>2. CASE v # u
      <4>1. token[v].held /\ token[v].object \in Objects /\ token[v].object # o
        BY <3>2, <1>2, <1>6, Records DEF HInv, HType, AllObjects, Token
      <4>2. QED
        BY <3>2, <4>1, <1>6 DEF HInv, HLive
    <3>3. QED
      BY <3>1, <3>2
  <2>3. \A v \in Users : Good(object'[handle'[v]])
    BY <2>1 DEF HInv, HLive
  <2>4. QED
    BY <2>2, <2>3 DEF HLive, Good, ReportsSet, Capable
<1>10. HTokens'
  BY DEF HTokens
<1>11. HProbe'
  BY NoProbes
<1>12. QED
  BY <1>7, <1>8, <1>9, <1>10, <1>11 DEF HInv

LEMMA SetWindowsStep ==
  ASSUME HInv, NEW u \in Users, SetFdFlagsWindows(u)
  PROVE  HInv'
<1> USE DEF SetFdFlagsWindows
<1> DEFINE new == token[u].object
<1>1. /\ new \in Objects /\ Good(object[new])
      /\ \A v \in Users : handle[v] # new /\ (v # u /\ token[v].held => token[v].object # new)
  BY Records DEF HInv, HType, AllObjects, Token, HLive, HFresh
<1> HIDE DEF new
<1>2. /\ handle' = [handle EXCEPT ![u] = new]
      /\ token' = [token EXCEPT ![u] = NoToken]
      /\ UNCHANGED <<setup, probe>>
  BY DEF new
<1>3. /\ handle'[u] = new /\ \A v \in Users : v # u => handle'[v] = handle[v]
      /\ token'[u] = NoToken /\ \A v \in Users : v # u => token'[v] = token[v]
  BY <1>2 DEF HInv, HType, AllObjects
<1>4. \A x \in Objects :
        x # handle[u] \/ (\E v \in Users \ {u} : handle[v] = handle[u]) => object'[x] = object[x]
  BY DEF HInv, HType, AllObjects
<1>5. HType'
  <2>1. IsObject(Closed)
    BY OpenedType DEF Closed
  <2>2. AllObjects(object')
    BY <2>1 DEF HInv, HType, AllObjects
  <2>3. QED
    BY <1>1, <1>2, <2>2 DEF HInv, HType, AllObjects
<1>6. HFresh'
  BY <1>1, <1>3, Records DEF HInv, HFresh
<1>7. HLive'
  <2>1. \A v \in Users : object'[handle'[v]] = object[handle'[v]] /\ Good(object[handle'[v]])
    <3> SUFFICES ASSUME NEW v \in Users
                 PROVE  object'[handle'[v]] = object[handle'[v]] /\ Good(object[handle'[v]])
      OBVIOUS
    <3>1. CASE v = u
      BY <3>1, <1>1, <1>3, <1>4
    <3>2. CASE v # u
      <4>1. handle'[v] = handle[v] /\ handle[v] \in Objects
        BY <3>2, <1>3 DEF HInv, HType, AllObjects
      <4>2. object'[handle[v]] = object[handle[v]]
        BY <3>2, <4>1, <1>4
      <4>3. QED
        BY <4>1, <4>2 DEF HInv, HLive
    <3>3. QED
      BY <3>1, <3>2
  <2>2. \A v \in Users : token'[v].held =>
          object'[token'[v].object] = object[token[v].object] /\ Good(object[token[v].object])
    <3> SUFFICES ASSUME NEW v \in Users, token'[v].held
                 PROVE  object'[token'[v].object] = object[token[v].object]
                        /\ Good(object[token[v].object])
      OBVIOUS
    <3>1. v # u /\ token'[v] = token[v]
      BY <1>3, Records
    <3>2. token[v].object \in Objects /\ token[v].object # handle[u]
      BY <3>1, Records DEF HInv, HType, AllObjects, Token, HFresh
    <3>3. QED
      BY <3>1, <3>2, <1>4 DEF HInv, HLive
  <2>3. setup' = setup
    OBVIOUS
  <2>4. ASSUME NEW v \in Users PROVE Good(object[handle[v]])'
    BY <2>1, <2>3 DEF Good, ReportsSet, Capable
  <2>5. ASSUME NEW v \in Users, token'[v].held
        PROVE  Good(object[token[v].object])'
    BY <2>2, <2>3, <2>5 DEF Good, ReportsSet, Capable
  <2>6. QED
    BY <2>4, <2>5 DEF HLive
<1>8. HTokens'
  BY <1>3, Records DEF HInv, HTokens
<1>9. HProbe'
  BY NoProbes
<1>10. QED
  BY <1>5, <1>6, <1>7, <1>8, <1>9 DEF HInv

LEMMA DropStep ==
  ASSUME HInv, NEW u \in Users, DropToken(u)
  PROVE  HInv'
<1> USE DEF DropToken
<1> DEFINE dropped == token[u].object
<1>1. dropped \in Objects /\ setup.kind # "socket"
  BY Records DEF HInv, HType, AllObjects, Token, HTokens
<1>2. /\ token'[u] = NoToken /\ \A v \in Users : v # u => token'[v] = token[v]
      /\ \A v \in Users : token'[v].held => v # u /\ token[v].held
  BY Records DEF HInv, HType, AllObjects
<1>3. /\ setup.kind # "windows" => object' = object
      /\ setup.kind = "windows" =>
           \A x \in Objects : x # dropped => object'[x] = object[x]
  BY DEF HInv, HType, AllObjects
<1>4. HType'
  <2>1. IsObject(Closed)
    BY OpenedType DEF Closed
  <2>2. AllObjects(object')
    BY <2>1 DEF HInv, HType, AllObjects
  <2>3. QED
    BY <2>2 DEF HInv, HType, AllObjects
<1>5. HFresh'
  BY <1>2 DEF HInv, HFresh
<1>6. HLive'
  <2>1. \A v \in Users : object'[handle'[v]] = object[handle[v]]
    BY <1>3 DEF HInv, HType, AllObjects, HFresh
  <2>2. \A v \in Users : setup.kind = "windows" /\ token'[v].held =>
          token'[v] = token[v] /\ object'[token[v].object] = object[token[v].object]
    <3> SUFFICES ASSUME NEW v \in Users, setup.kind = "windows", token'[v].held
                 PROVE  token'[v] = token[v]
                        /\ object'[token[v].object] = object[token[v].object]
      OBVIOUS
    <3>1. v # u /\ token[v].held /\ token'[v] = token[v]
      BY <1>2
    <3>2. token[v].object \in Objects /\ token[v].object # dropped
      BY <3>1, Records DEF HInv, HType, AllObjects, Token, HFresh
    <3>3. QED
      BY <3>1, <3>2, <1>3
  <2>3. ASSUME NEW v \in Users PROVE Good(object[handle[v]])'
    <3>1. Good(object[handle[v]])
      BY DEF HInv, HLive
    <3>2. setup' = setup /\ object'[handle'[v]] = object[handle[v]]
      BY <2>1
    <3>3. QED
      BY <3>1, <3>2 DEF Good, ReportsSet, Capable
  <2>4. ASSUME NEW v \in Users, setup'.kind = "windows", token'[v].held
        PROVE  Good(object[token[v].object])'
    <3>1. Good(object[token[v].object])
      BY <1>2, <2>4 DEF HInv, HLive
    <3>2. setup' = setup /\ object'[token'[v].object] = object[token[v].object]
      BY <2>2, <2>4
    <3>3. QED
      BY <3>1, <3>2 DEF Good, ReportsSet, Capable
  <2>5. QED
    BY <2>3, <2>4 DEF HLive
<1>7. HTokens'
  BY <1>2 DEF HInv, HTokens
<1>8. HProbe'
  BY <1>1, NoProbes
<1>9. QED
  BY <1>4, <1>5, <1>6, <1>7, <1>8 DEF HInv

-----------------------------------------------------------------------------
(***************************************************************************)
(* It is inductive: the probes of a socket                                 *)
(***************************************************************************)

LEMMA ShutdownStep ==
  ASSUME HInv, NEW u \in Users, Shutdown(u)
  PROVE  HInv'
<1> USE DEF Shutdown
<1>1. PICK side \in object[handle[u]].access :
        object' = [object EXCEPT ![handle[u]].access = @ \ {side}]
  OBVIOUS
<1> DEFINE old == object[handle[u]]
           new == [old EXCEPT !.access = @ \ {side}]
<1>a. IsObject(old) /\ handle[u] \in Objects
  BY DEF HInv, HType, AllObjects
<1>b. /\ IsObject(new) /\ new.flags = old.flags /\ new.set = old.set
      /\ new.access \subseteq old.access
  <2> HIDE DEF old
  <2>1. QED
    BY <1>a DEF IsObject
<1>c. object' = [object EXCEPT ![handle[u]] = new]
  BY <1>1
<1> HIDE DEF new
<1>2. /\ AllObjects(object')
      /\ \A x \in Objects : /\ object'[x].flags = object[x].flags
                            /\ object'[x].set = object[x].set
                            /\ object'[x].access \subseteq object[x].access
  BY <1>a, <1>b, <1>c DEF HInv, HType, AllObjects
<1>3. HType' /\ HFresh' /\ HTokens'
  BY <1>2 DEF HInv, HType, AllObjects, HFresh, HTokens
<1>4. \A v \in Users : handle[v] \in Objects
  BY DEF HInv, HType, AllObjects
<1>5. HLive'
  BY <1>2, <1>4 DEF HInv, HLive, Good, ReportsSet, Capable
<1>6. HProbe'
  <2>1. \A v \in Users : object'[handle'[v]].access \subseteq object[handle[v]].access
    BY <1>2, <1>4
  <2>2. QED
    BY <2>1 DEF HInv, HProbe
<1>7. QED
  BY <1>3, <1>5, <1>6 DEF HInv

\* A step of one probe, which becomes p.
LEMMA ProbeStep ==
  ASSUME HInv, NEW u \in Users, NEW p \in {NoProbe} \cup Probe,
         probe' = [probe EXCEPT ![u] = p], UNCHANGED <<setup, object, handle, token>>,
         p # NoProbe =>
           /\ setup.kind = "socket"
           /\ p.sides \subseteq {"READ", "WRITE"}
           /\ object[handle[u]].access \subseteq p.sides
           /\ p.write <=> "WRITE" \in p.sides
           /\ p.pc = "done" => /\ p.read => "READ" \in p.sides
                               /\ "READ" \in object[handle[u]].access => p.read
  PROVE  HInv'
<1>1. HFresh' /\ HLive' /\ HTokens'
  BY SameLive
<1>2. HType'
  BY DEF HInv, HType, AllObjects
<1>3. HProbe'
  <2>1. probe'[u] = p /\ \A v \in Users : v # u => probe'[v] = probe[v]
    BY DEF HInv, HType, AllObjects
  <2>2. QED
    BY <2>1 DEF HInv, HProbe
<1>4. QED
  BY <1>1, <1>2, <1>3 DEF HInv

LEMMA SendStep ==
  ASSUME HInv, NEW u \in Users, SendProbe(u)
  PROVE  HInv'
<1> DEFINE sides == object[handle[u]].access
           p == [pc |-> "sent", sides |-> sides, read |-> TRUE, write |-> CanWrite(sides)]
<1>1. /\ setup.kind = "socket" /\ probe' = [probe EXCEPT ![u] = p]
      /\ UNCHANGED <<setup, object, handle, token>>
  BY DEF SendProbe
<1>2. sides \in SUBSET Rights /\ sides \subseteq {"READ", "WRITE"}
  BY <1>1 DEF HInv, HType, AllObjects, HProbe, IsObject
<1>3. p \in Probe
  BY <1>2 DEF Probe, CanWrite
<1>4. /\ p.pc = "sent" /\ p.sides = sides
      /\ p.write <=> "WRITE" \in sides
  BY <1>2 DEF CanWrite
<1> HIDE DEF p
<1>5. QED
  BY <1>1, <1>2, <1>3, <1>4, ProbeStep

LEMMA RecvStep ==
  ASSUME HInv, NEW u \in Users, RecvProbe(u)
  PROVE  HInv'
<1> DEFINE old == probe[u]
           can == CanRead(object[handle[u]].access)
           p == [old EXCEPT !.pc = "done", !.read = can]
<1>0. can \in BOOLEAN
  BY DEF CanRead
<1>1. /\ old \in Probe /\ old # NoProbe
      /\ probe' = [probe EXCEPT ![u] = p] \/ probe' = [probe EXCEPT ![u] = NoProbe]
      /\ UNCHANGED <<setup, object, handle, token>>
  BY Records DEF RecvProbe, HInv, HType, AllObjects
<1>2. CASE probe' = [probe EXCEPT ![u] = NoProbe]
  BY <1>1, <1>2, ProbeStep
<1>3. CASE probe' = [probe EXCEPT ![u] = p]
  <2>1. p \in Probe /\ p.sides = old.sides /\ (p.write <=> old.write) /\ (p.read <=> can)
    <3> HIDE DEF old, can
    <3>1. QED
      BY <1>0, <1>1 DEF Probe
  <2>2. /\ setup.kind = "socket" /\ old.sides \subseteq {"READ", "WRITE"}
        /\ object[handle[u]].access \subseteq old.sides
        /\ old.write <=> "WRITE" \in old.sides
    BY <1>1 DEF HInv, HProbe
  <2>3. can <=> "READ" \in object[handle[u]].access
    BY DEF CanRead
  <2> HIDE DEF p, old, can
  <2>4. QED
    BY <1>1, <1>3, <2>1, <2>2, <2>3, ProbeStep DEF old
<1>4. QED
  BY <1>1, <1>2, <1>3

LEMMA AnswerStep ==
  ASSUME HInv, NEW u \in Users, ProbeAnswers(u)
  PROVE  HInv'
BY ProbeStep DEF ProbeAnswers

-----------------------------------------------------------------------------
(***************************************************************************)
(* It is inductive: every step                                             *)
(***************************************************************************)

LEMMA SeekStep ==
  ASSUME HInv, NEW u \in Users, HandleSeek(u)
  PROVE  HInv'
<1>1. PICK p \in Offsets : object' = [object EXCEPT ![handle[u]].pos = p]
  BY DEF HandleSeek
<1>2. QED
  BY <1>1, MovedStep DEF HandleSeek

LEMMA WriteStep ==
  ASSUME HInv, NEW u \in Users, HandleWrite(u)
  PROVE  HInv'
<1>1. PICK p : object' = [object EXCEPT ![handle[u]].pos = p]
  BY DEF HandleWrite
<1>2. QED
  BY <1>1, MovedStep DEF HandleWrite

\* The calls on the reopened handles and the other processes leave the handles
\* as they are.
LEMMA CallStep ==
  ASSUME HInv, NEW u \in Users,
         \/ Begin(u) \/ Reopen(u) \/ SeekReopened(u) \/ ReadFile(u) \/ WriteFile(u)
         \/ Fails(u) \/ Return(u) \/ ResizeElsewhere
  PROVE  HInv'
<1>1. UNCHANGED handleVars
  BY DEF Begin, Reopen, SeekReopened, ReadFile, WriteFile, Fails, Return, ResizeElsewhere
<1>2. QED
  BY <1>1, HStutter

LEMMA NextHolds == HInv /\ [Next]_vars => HInv'
<1> SUFFICES ASSUME HInv, [Next]_vars PROVE HInv'
  OBVIOUS
<1>1. ASSUME NEW u \in Users, FlagsCall(u) PROVE HInv'
  BY <1>1, NewPosixStep, SetPosixStep, NewWindowsStep, SetWindowsStep, DropStep DEF FlagsCall
<1>2. ASSUME NEW u \in Users, SocketCall(u) PROVE HInv'
  BY <1>2, ShutdownStep, SendStep, RecvStep, AnswerStep DEF SocketCall
<1>3. ASSUME NEW u \in Users,
             \/ Begin(u) \/ Reopen(u) \/ SeekReopened(u) \/ ReadFile(u) \/ WriteFile(u)
             \/ Fails(u) \/ Return(u)
      PROVE  HInv'
  BY <1>3, CallStep
<1>4. CASE ResizeElsewhere
  BY <1>4, HStutter DEF ResizeElsewhere
<1>5. CASE UNCHANGED vars
  BY <1>5, HStutter DEF vars
<1>6. QED
  BY <1>1, <1>2, <1>3, <1>4, <1>5, SeekStep, WriteStep DEF Next

LEMMA Inductive == Spec => []HInv
<1>1. QED
  BY InitHolds, NextHolds, PTL DEF Spec

-----------------------------------------------------------------------------
(***************************************************************************)
(* Theorems                                                                *)
(***************************************************************************)

\* Types, and no handle or token is left with an object that somebody else's
\* set_fd_flags closed: a reopened object belongs to one token until it
\* becomes the handle of one user (fd_flags.rs:196-205).
THEOREM HandlesStayOpen == Spec => []HandlesTypeOK
<1>1. HInv => HandlesTypeOK
  <2> SUFFICES ASSUME HInv PROVE HandlesTypeOK
    OBVIOUS
  <2>1. setup.access # {} /\ setup.access \subseteq Rights
    BY HandlesAssumption DEF HInv, HType
  <2>2. ASSUME NEW o, Good(o), setup.kind # "socket" PROVE o # Closed
    BY <2>1, <2>2 DEF Good, Capable, CanRead, CanWrite, Closed, Opened, Rights
  <2>3. setup.kind # "socket" => \A u \in Users : object[handle[u]] # Closed
    BY <2>2 DEF HInv, HLive
  <2>4. setup.kind = "windows" =>
          \A u, v \in Users : token[u].held =>
            /\ object[token[u].object] # Closed /\ token[u].object # handle[v]
            /\ token[v].held /\ token[v].object = token[u].object => u = v
    BY <2>2 DEF HInv, HLive, HFresh
  <2>5. \A u \in Users : probe[u].pc \in {"idle", "sent", "done"}
    BY Records DEF HInv, HType, Probe
  <2>6. \A o \in Objects : /\ object[o].access \subseteq Rights
                          /\ object[o].flags \subseteq Flags
                          /\ object[o].set \subseteq FdFlags
    BY DEF HInv, HType, AllObjects, IsObject
  <2>7. QED
    BY <2>3, <2>4, <2>5, <2>6 DEF HandlesTypeOK, HInv, HType
<1>2. QED
  BY <1>1, Inductive, PTL

\* Whatever sets of how many users interleave, a handle reports the whole
\* choice of the last one on its object (fd_flags.rs:84-113, 141-144, 154-197).
THEOREM FlagsAreOneChoice == Spec => []FlagsInForce
<1>1. HInv => FlagsInForce
  BY DEF HInv, HLive, Good, ReportsSet, FlagsInForce, GetFdFlags
<1>2. QED
  BY <1>1, Inductive, PTL

\* No sequence of sets, however long, takes a capability from a handle
\* (fd_flags.rs:186-193, 222-235).
THEOREM CapabilityIsKept == Spec => []KeepsCapability
<1>1. HInv => KeepsCapability
  BY DEF HInv, HLive, Good, Capable, KeepsCapability, CanRead, CanWrite
<1>2. QED
  BY <1>1, Inductive, PTL

\* Each half of the answer of is_read_write on a socket was true at an instant
\* of the call (is_read_write.rs:128-154).
THEOREM ProbeIsBetween == Spec => []ProbeBetween
<1>1. HInv => ProbeBetween
  <2> SUFFICES ASSUME HInv, NEW u \in Users, probe[u].pc = "done"
               PROVE  LET now == object[handle[u]].access IN
                      /\ probe[u].read => "READ" \in probe[u].sides
                      /\ probe[u].write => "WRITE" \in probe[u].sides
                      /\ "READ" \in now => probe[u].read
                      /\ "WRITE" \in now => probe[u].write
    BY DEF ProbeBetween
  <2>1. probe[u] # NoProbe
    BY Records
  <2>2. QED
    BY <2>1 DEF HInv, HProbe
<1>2. QED
  BY <1>1, Inductive, PTL

=============================================================================
