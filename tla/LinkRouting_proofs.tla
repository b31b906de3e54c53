------------------------- MODULE LinkRouting_proofs -------------------------
EXTENDS LinkRouting, TLAPS

(* What is assumed of the constants: the kernel's states, the files and    *)
(* the settings are of the kinds the code tells apart.                     *)
LinkConstants ==
    /\ KernelStates \subseteq {"gone", "down", "up"}
    /\ \A l \in Links : FileStates[l] \subseteq NetworkdStates \cup {Garbled}
    /\ DefaultOption \in Options
    /\ MaxEvents \in Nat /\ MaxCalls \in Nat

(* The types, by the thread that owns the variables.                       *)
EnvType ==
    /\ kernel \in [Links -> KernelStates] /\ events \in 0 .. MaxEvents
    /\ file \in [Links -> UNION {FileStates[l] : l \in Links}]
    /\ \A l \in Links : file[l] \in FileStates[l]
    /\ stop \in BOOLEAN
WakeType == rtnl \in {"closed", "open", "signalled"} /\ watch \in {"closed", "open", "signalled"}
StateType ==
    /\ table \in [Links -> LinkStates] /\ networkd \in [Links -> NetworkdStates]
    /\ specs \in [Links -> Specs]
KernelType ==
    /\ kpc \in {"open", "wait", "table", "list", "specs", "finish", "ended"}
    /\ snapshot \in [Links -> KernelStates] \cup {NoSnapshot}
    /\ kpc = "table" => snapshot \in [Links -> KernelStates]
    /\ live \subseteq Links /\ kchanged \in BOOLEAN
NetworkdType ==
    /\ npc \in {"spawn", "exit", "open", "wait", "read", "lock", "table", "specs", "ended"}
    /\ incoming \in [Links -> NetworkdStates] /\ unread \subseteq Links
    /\ todo \subseteq [link : Links, spec : Specs]
    /\ nchanged \in BOOLEAN /\ started \in BOOLEAN
SetterType ==
    /\ pc \in [Setters -> {"idle", "check", "table", "specs", "finish"}]
    /\ call \in [Setters -> Calls \cup {NoCall}]
    /\ \A u \in Setters : pc[u] # "idle" => call[u] \in Calls
    /\ changed \in [Setters -> BOOLEAN] /\ calls \in [Setters -> 0 .. MaxCalls]
QueryType == qpc \in [Queriers -> {"idle", "filter", "ask"}] /\ scopes \in [Queriers -> SUBSET Links]
HistoryType == unpublished \in BOOLEAN /\ lost \in BOOLEAN /\ abandoned \subseteq Links

Types ==
    /\ EnvType /\ WakeType /\ StateType /\ KernelType /\ NetworkdType /\ SetterType /\ QueryType
    /\ HistoryType

(* They are the types of the model.                                        *)
LEMMA TypesAreTypes == Types => TypeOK
<1>1. Types => {kchanged, nchanged, started, stop, unpublished, lost} \subseteq BOOLEAN
  BY Zenon DEF Types, EnvType, KernelType, NetworkdType, HistoryType
<1>2. Types => {live, unread, abandoned} \subseteq SUBSET Links
  BY Zenon DEF Types, KernelType, NetworkdType, HistoryType
<1> QED
  BY Zenon, <1>1, <1>2 DEF Types, EnvType, WakeType, StateType, KernelType, NetworkdType, SetterType,
     QueryType, HistoryType, TypeOK

(* The values that the model's records take.                               *)
LEMMA RecordFacts ==
    ASSUME LinkConstants
    PROVE  /\ NoLink \in LinkStates /\ NewLink(TRUE) \in LinkStates /\ NewLink(FALSE) \in LinkStates
           /\ Unmanaged \in NetworkdStates /\ Nobody \in [Links -> NetworkdStates] /\ NoSpec \in Specs
           /\ \A s \in LinkStates : s.live \in BOOLEAN /\ s.up \in BOOLEAN
           /\ \A s \in NetworkdStates : /\ s.managed \in BOOLEAN /\ s.dns \in DnsLists \cup {NoDns}
                                        /\ s.name \in Names \cup {NoName} /\ s.option \in Options
BY DEF LinkConstants, NoLink, NewLink, LinkStates, Unmanaged, Nobody, NetworkdStates, NoSpec, Specs

(* A link in another state of the kernel keeps its settings.               *)
LEMMA UpUpdates ==
    ASSUME NEW s \in LinkStates, NEW x \in BOOLEAN
    PROVE  /\ [s EXCEPT !.up = x] \in LinkStates
           /\ [s EXCEPT !.up = x].live = s.live /\ [s EXCEPT !.up = x].up = x
           /\ [s EXCEPT !.up = x].dns = s.dns /\ [s EXCEPT !.up = x].option = s.option
BY DEF LinkStates

(* A link of LinkState::new: in the table, with no settings.               *)
LEMMA NewLinks ==
    ASSUME LinkConstants, NEW x \in BOOLEAN
    PROVE  /\ NewLink(x) \in LinkStates /\ NewLink(x).live = TRUE /\ NewLink(x).up = x
           /\ NewLink(x).dns = NoDns /\ NewLink(x).option = DefaultOption
BY DEF LinkConstants, NewLink, LinkStates

(* The table has the links of a snapshot of the kernel, in their states.   *)
Follows(tab, snap) ==
    \A l \in Links : /\ tab[l].live <=> snap[l] # "gone"
                     /\ tab[l].live => (tab[l].up <=> snap[l] = "up")

(* RoutingTable::sync_kernel_links makes the table follow the snapshot.    *)
LEMMA KernelSyncedFacts ==
    ASSUME LinkConstants, NEW tab \in [Links -> LinkStates], NEW snap
    PROVE  KernelSynced(tab, snap) \in [Links -> LinkStates] /\ Follows(KernelSynced(tab, snap), snap)
<1> DEFINE S(l) == IF snap[l] = "gone" THEN NoLink
                   ELSE IF tab[l].live THEN [tab[l] EXCEPT !.up = (snap[l] = "up")]
                   ELSE NewLink(snap[l] = "up")
<1>1. ASSUME NEW l \in Links
      PROVE  /\ S(l) \in LinkStates /\ (S(l).live <=> snap[l] # "gone")
             /\ (S(l).live => (S(l).up <=> snap[l] = "up"))
  <2>0. tab[l] \in LinkStates /\ (snap[l] = "up") \in BOOLEAN  OBVIOUS
  <2>1. CASE snap[l] = "gone"
    <3>1. NoLink.live = FALSE  BY DEF NoLink
    <3> QED  BY Zenon, <2>1, <3>1, RecordFacts
  <2>2. CASE snap[l] # "gone" /\ tab[l].live
    <3>1. PICK x \in BOOLEAN : x <=> snap[l] = "up"  BY Zenon
    <3>2. S(l) = [tab[l] EXCEPT !.up = x]  BY <2>2, <3>1
    <3>3. /\ [tab[l] EXCEPT !.up = x] \in LinkStates
          /\ [tab[l] EXCEPT !.up = x].live = tab[l].live /\ [tab[l] EXCEPT !.up = x].up = x
      BY ZenonT(30), <2>0, <3>1, UpUpdates
    <3> HIDE DEF S
    <3> QED  BY Zenon, <2>2, <3>1, <3>2, <3>3
  <2>3. CASE snap[l] # "gone" /\ ~tab[l].live
    <3>1. S(l) = NewLink(snap[l] = "up")  BY Zenon, <2>3
    <3> QED  BY Zenon, <2>0, <2>3, <3>1, NewLinks
  <2> QED  BY Zenon, <2>1, <2>2, <2>3
<1>2. KernelSynced(tab, snap) = [l \in Links |-> S(l)]  BY Zenon DEF KernelSynced
<1> HIDE DEF S
<1>3. KernelSynced(tab, snap) \in [Links -> LinkStates]  BY Zenon, <1>1, <1>2
<1>4. \A l \in Links : KernelSynced(tab, snap)[l] = S(l)  BY Zenon, <1>2
<1> QED  BY Zenon, <1>1, <1>3, <1>4 DEF Follows

(* The variables of a group that a step leaves alone keep their types.     *)
LEMMA Untouched ==
    /\ EnvType /\ UNCHANGED envVars => EnvType'
    /\ WakeType /\ UNCHANGED <<rtnl, watch>> => WakeType'
    /\ StateType /\ UNCHANGED stateVars => StateType'
    /\ KernelType /\ UNCHANGED kernelVars => KernelType'
    /\ NetworkdType /\ UNCHANGED networkdVars => NetworkdType'
    /\ SetterType /\ UNCHANGED setterVars => SetterType'
    /\ QueryType /\ UNCHANGED queryVars => QueryType'
    /\ HistoryType /\ UNCHANGED history => HistoryType'
<1>1. EnvType /\ UNCHANGED envVars => EnvType'  BY Zenon DEF EnvType, envVars
<1>2. WakeType /\ UNCHANGED <<rtnl, watch>> => WakeType'  BY Zenon DEF WakeType
<1>3. StateType /\ UNCHANGED stateVars => StateType'  BY Zenon DEF StateType, stateVars
<1>4. KernelType /\ UNCHANGED kernelVars => KernelType'  BY Zenon DEF KernelType, kernelVars
<1>5. NetworkdType /\ UNCHANGED networkdVars => NetworkdType'  BY Zenon DEF NetworkdType,
                                                                  networkdVars
<1>6. SetterType /\ UNCHANGED setterVars => SetterType'  BY Zenon DEF SetterType, setterVars
<1>7. QueryType /\ UNCHANGED queryVars => QueryType'  BY Zenon DEF QueryType, queryVars
<1>8. HistoryType /\ UNCHANGED history => HistoryType'  BY Zenon DEF HistoryType, history
<1> QED  BY Zenon, <1>1, <1>2, <1>3, <1>4, <1>5, <1>6, <1>7, <1>8

(* The kernel, networkd and the RTNL thread.                               *)
LEMMA KernelTypes ==
    ASSUME LinkConstants, Types,
           \/ \E l \in Links : KernelChanges(l) \/ NetworkdWrites(l)
           \/ OpenRtnl \/ RtnlThread \/ RtnlEnds
    PROVE  Types'
<1> USE DEF Types
<1>1. ASSUME NEW l \in Links, KernelChanges(l)  PROVE Types'
  <2>1. EnvType'
    <3>1. events' \in 0 .. MaxEvents  BY <1>1 DEF LinkConstants, EnvType, KernelChanges
    <3>2. kernel' \in [Links -> KernelStates]  BY Zenon, <1>1 DEF EnvType, KernelChanges
    <3>3. UNCHANGED <<file, stop>>  BY Zenon, <1>1 DEF KernelChanges
    <3> QED  BY Zenon, <3>1, <3>2, <3>3 DEF EnvType
  <2>2. WakeType'  BY Zenon, <1>1 DEF WakeType, KernelChanges, Signal
  <2>3. UNCHANGED <<stateVars, kernelVars, networkdVars, setterVars, queryVars, history>>
    BY Zenon, <1>1 DEF KernelChanges
  <2> QED  BY Zenon, <2>1, <2>2, <2>3, Untouched
<1>2. ASSUME NEW l \in Links, NetworkdWrites(l)  PROVE Types'
  <2>1. EnvType'
    <3>1. events' \in 0 .. MaxEvents  BY <1>2 DEF LinkConstants, EnvType, NetworkdWrites
    <3>2. UNCHANGED <<kernel, stop>>  BY Zenon, <1>2 DEF NetworkdWrites
    <3>3. PICK s \in FileStates[l] : file' = [file EXCEPT ![l] = s]  BY Zenon,
                                                                        <1>2 DEF NetworkdWrites
    <3>4. s \in UNION {FileStates[m] : m \in Links}  BY Zenon, <1>2, <3>3
    <3>5. file' \in [Links -> UNION {FileStates[m] : m \in Links}]  BY Zenon, <3>3, <3>4 DEF EnvType
    <3>6. \A m \in Links : file'[m] \in FileStates[m]  BY Zenon, <1>2, <3>3 DEF EnvType
    <3> QED  BY Zenon, <3>1, <3>2, <3>5, <3>6 DEF EnvType
  <2>2. WakeType'  BY Zenon, <1>2 DEF WakeType, NetworkdWrites, Signal
  <2>3. UNCHANGED <<stateVars, kernelVars, networkdVars, setterVars, queryVars, history>>
    BY Zenon, <1>2 DEF NetworkdWrites
  <2> QED  BY Zenon, <2>1, <2>2, <2>3, Untouched
<1>3. ASSUME OpenRtnl  PROVE Types'
  <2>1. WakeType' /\ KernelType'  BY Zenon, <1>3 DEF OpenRtnl, WakeType, KernelType
  <2>2. UNCHANGED <<envVars, stateVars, networkdVars, setterVars, queryVars, history>>
    BY Zenon, <1>3 DEF OpenRtnl
  <2> QED  BY Zenon, <2>1, <2>2, Untouched
<1>4. ASSUME RtnlWakes  PROVE Types'
  <2>1. WakeType' /\ KernelType'  BY Zenon, <1>4 DEF RtnlWakes, WakeType, KernelType, EnvType
  <2>2. UNCHANGED <<envVars, stateVars, networkdVars, setterVars, queryVars, history>>
    BY Zenon, <1>4 DEF RtnlWakes
  <2> QED  BY Zenon, <2>1, <2>2, Untouched
<1>5. ASSUME SyncKernelTable  PROVE Types'
  <2>1. StateType'  BY Zenon, <1>5, KernelSyncedFacts DEF SyncKernelTable, StateType
  <2>2. KernelType' /\ HistoryType'  BY Zenon, <1>5 DEF SyncKernelTable, KernelType, HistoryType
  <2>3. UNCHANGED <<envVars, rtnl, watch, networkdVars, setterVars, queryVars>>
    BY Zenon, <1>5 DEF SyncKernelTable
  <2> QED  BY Zenon, <2>1, <2>2, <2>3, Untouched
<1>6. ASSUME ListLinks  PROVE Types'
  <2>1. KernelType'  BY Zenon, <1>6 DEF ListLinks, KernelType
  <2>2. UNCHANGED <<envVars, rtnl, watch, stateVars, networkdVars, setterVars, queryVars, history>>
    BY Zenon, <1>6 DEF ListLinks
  <2> QED  BY Zenon, <2>1, <2>2, Untouched
<1>7. ASSUME RetainSpecs  PROVE Types'
  <2>1. StateType'  BY Zenon, <1>7, RecordFacts DEF RetainSpecs, StateType
  <2>2. KernelType' /\ HistoryType'  BY Zenon, <1>7 DEF RetainSpecs, KernelType, HistoryType
  <2>3. UNCHANGED <<envVars, rtnl, watch, networkdVars, setterVars, queryVars>>
    BY Zenon, <1>7 DEF RetainSpecs
  <2> QED  BY Zenon, <2>1, <2>2, <2>3, Untouched
<1>8. ASSUME FinishKernel  PROVE Types'
  <2>1. KernelType' /\ HistoryType'  BY Zenon, <1>8 DEF FinishKernel, KernelType, HistoryType
  <2>2. UNCHANGED <<envVars, rtnl, watch, stateVars, networkdVars, setterVars, queryVars>>
    BY Zenon, <1>8 DEF FinishKernel
  <2> QED  BY Zenon, <2>1, <2>2, Untouched
<1>9. ASSUME RtnlEnds  PROVE Types'
  <2>1. EnvType' /\ KernelType'  BY Zenon, <1>9 DEF RtnlEnds, EnvType, KernelType
  <2>2. UNCHANGED <<rtnl, watch, stateVars, networkdVars, setterVars, queryVars, history>>
    BY Zenon, <1>9 DEF RtnlEnds
  <2> QED  BY Zenon, <2>1, <2>2, Untouched
<1> QED  BY Zenon, <1>1, <1>2, <1>3, <1>4, <1>5, <1>6, <1>7, <1>8, <1>9 DEF RtnlThread

(* What sync_networkd_links makes of a link: it stays in the table, in the *)
(* kernel's state.                                                         *)
LEMMA SyncedFacts ==
    ASSUME LinkConstants, Types, NEW l \in Links
    PROVE  Synced(l) \in LinkStates /\ Synced(l).live = table[l].live /\ Synced(l).up = table[l].up
<1>1. table[l] \in LinkStates /\ incoming[l] \in NetworkdStates
  BY Zenon DEF Types, StateType, NetworkdType
<1>2. table[l].up \in BOOLEAN /\ incoming[l].dns \in DnsLists \cup {NoDns} /\ incoming[l].option \in Options
  BY Zenon, <1>1, RecordFacts
<1>3. CASE table[l].live /\ NoLongerManaged(l)
  <2>1. Synced(l) = NewLink(table[l].up)  BY Zenon, <1>3 DEF Synced
  <2> QED  BY Zenon, <1>1, <1>2, <1>3, <2>1, NewLinks, RecordFacts
<1>4. CASE table[l].live /\ ~NoLongerManaged(l) /\ incoming[l].managed
  <2>1. PICK t, d, o : t = table[l] /\ d = incoming[l].dns /\ o = incoming[l].option  OBVIOUS
  <2>2. Synced(l) = [t EXCEPT !.dns = d, !.option = o]  BY Zenon, <1>4, <2>1 DEF Synced
  <2>3. t \in LinkStates /\ d \in DnsLists \cup {NoDns} /\ o \in Options  BY Zenon, <1>1, <1>2, <2>1
  <2>4. /\ [t EXCEPT !.dns = d, !.option = o] \in LinkStates
        /\ [t EXCEPT !.dns = d, !.option = o].live = t.live /\ [t EXCEPT !.dns = d, !.option = o].up = t.up
    BY Zenon, <2>3 DEF LinkStates
  <2> QED  BY Zenon, <2>1, <2>2, <2>4
<1>5. CASE ~table[l].live \/ (~NoLongerManaged(l) /\ ~incoming[l].managed)
  BY Zenon, <1>1, <1>5 DEF Synced
<1> QED  BY Zenon, <1>3, <1>4, <1>5

(* What the early return of sync_networkd_links makes of the table: links  *)
(* stay in it in the kernel's state, and what is not in it has nothing.    *)
LEMMA FailedFacts ==
    ASSUME LinkConstants, Types, SyncNetworkdFails
    PROVE  /\ table' \in [Links -> LinkStates]
           /\ \A m \in Links : /\ table'[m].live = table[m].live /\ table'[m].up = table[m].up
                               /\ ~table[m].live => table'[m] = table[m]
                               /\ table'[m] # table[m] => networkd[m].managed \/ incoming[m].managed
<1>1. PICK l \in Links, o \in Options, done \in SUBSET {m \in Links : incoming[m].managed} :
         /\ Refusing(l)
         /\ table' = [m \in Links |->
                        IF m = l THEN [table[m] EXCEPT !.dns = incoming[m].dns, !.option = o]
                        ELSE IF NoLongerManaged(m) \/ m \in done THEN Synced(m)
                        ELSE table[m]]
  BY Zenon DEF SyncNetworkdFails
<1>2. table \in [Links -> LinkStates] /\ incoming[l] \in NetworkdStates
  BY Zenon DEF Types, StateType, NetworkdType
<1>3. PICK t \in LinkStates, d \in DnsLists \cup {NoDns} : t = table[l] /\ d = incoming[l].dns
  BY Zenon, <1>2, RecordFacts
<1>4. table'[l] = [t EXCEPT !.dns = d, !.option = o]  BY Zenon, <1>1, <1>3
<1>5. /\ [t EXCEPT !.dns = d, !.option = o] \in LinkStates
      /\ [t EXCEPT !.dns = d, !.option = o].live = t.live /\ [t EXCEPT !.dns = d, !.option = o].up = t.up
  BY Zenon, <1>1, <1>3 DEF LinkStates
<1>6. table[l].live /\ incoming[l].managed  BY Zenon, <1>1 DEF Refusing
<1>7. ASSUME NEW m \in Links, m # l
      PROVE  \/ table'[m] = table[m]
             \/ table'[m] = Synced(m) /\ (networkd[m].managed \/ incoming[m].managed)
  BY Zenon, <1>1, <1>7 DEF NoLongerManaged
<1>8. \A m \in Links : ~table[m].live => Synced(m) = table[m]  BY Zenon DEF Synced
<1>9. ASSUME NEW m \in Links
      PROVE  /\ table'[m] \in LinkStates
             /\ table'[m].live = table[m].live /\ table'[m].up = table[m].up
             /\ ~table[m].live => table'[m] = table[m]
             /\ table'[m] # table[m] => networkd[m].managed \/ incoming[m].managed
  <2>1. CASE m = l  BY Zenon, <1>3, <1>4, <1>5, <1>6, <2>1
  <2>2. CASE m # l  BY Zenon, <1>2, <1>7, <1>8, <1>9, <2>2, SyncedFacts
  <2> QED  BY Zenon, <2>1, <2>2
<1>10. table' = [m \in Links |-> table'[m]]  BY Zenon, <1>1
<1> QED  BY Zenon, <1>9, <1>10

(* What it hands on to the server specs.                                   *)
LEMMA IdentityFacts ==
    ASSUME LinkConstants, Types, NEW l \in Links
    PROVE  /\ Identity(l) \in [link : Links, spec : Specs] /\ Identity(l).link = l
           /\ Identity(l).spec = IF table[l].live /\ incoming[l].managed /\ incoming[l].dns # NoDns
                                 THEN [dns |-> incoming[l].dns, name |-> incoming[l].name] ELSE NoSpec
<1>1. incoming[l] \in NetworkdStates  BY Zenon DEF Types, NetworkdType
<1>2. [dns |-> incoming[l].dns, name |-> incoming[l].name] \in Specs
  BY Zenon, <1>1, RecordFacts DEF Specs
<1>3. NoSpec \in Specs  BY Zenon, RecordFacts
<1> DEFINE s == IF table[l].live /\ incoming[l].managed /\ incoming[l].dns # NoDns
                THEN [dns |-> incoming[l].dns, name |-> incoming[l].name] ELSE NoSpec
<1>4. s \in Specs  BY Zenon, <1>2, <1>3
<1>5. Identity(l) = [link |-> l, spec |-> s]  BY Zenon DEF Identity
<1> HIDE DEF s
<1> SUFFICES /\ Identity(l) \in [link : Links, spec : Specs] /\ Identity(l).link = l
             /\ Identity(l).spec = s
  BY Zenon DEF s
<1> QED  BY <1>4, <1>5

(* The networkd thread.                                                    *)
LEMMA NetworkdTypes ==
    ASSUME LinkConstants, Types, NetworkdThread \/ NetworkdEnds
    PROVE  Types'
<1> USE DEF Types
<1>1. ASSUME OpenWatch  PROVE Types'
  <2>1. WakeType' /\ NetworkdType'  BY Zenon, <1>1 DEF OpenWatch, WakeType, NetworkdType
  <2>2. UNCHANGED <<envVars, stateVars, kernelVars, setterVars, queryVars, history>>
    BY Zenon, <1>1 DEF OpenWatch
  <2> QED  BY Zenon, <2>1, <2>2, Untouched
<1>2. ASSUME BeginSync  PROVE Types'
  <2>1. WakeType' /\ NetworkdType'  BY Zenon, <1>2 DEF BeginSync, WakeType, NetworkdType
  <2>2. UNCHANGED <<envVars, stateVars, kernelVars, setterVars, queryVars, history>>
    BY Zenon, <1>2 DEF BeginSync
  <2> QED  BY Zenon, <2>1, <2>2, Untouched
<1>3. ASSUME NEW l \in Links, ReadFile(l)  PROVE Types'
  <2>1. WakeType'  BY Zenon, <1>3 DEF ReadFile, GiveUp, WakeType
  <2>2. incoming' \in [Links -> NetworkdStates]
    <3>1. file[l] = Garbled \/ file[l] \in NetworkdStates  BY Zenon, <1>3 DEF EnvType, LinkConstants
    <3> QED  BY Zenon, <1>3, <3>1, RecordFacts DEF ReadFile, GiveUp, NetworkdType
  <2>3. npc' \in {"open", "exit", "lock", "read"} /\ unread' \subseteq Links
    BY Zenon, <1>3 DEF ReadFile, GiveUp, NetworkdType
  <2>4. UNCHANGED <<todo, nchanged, started>>  BY Zenon, <1>3 DEF ReadFile
  <2>5. NetworkdType'  BY Zenon, <2>2, <2>3, <2>4 DEF NetworkdType
  <2>6. UNCHANGED <<envVars, stateVars, kernelVars, setterVars, queryVars, history>>
    BY Zenon, <1>3 DEF ReadFile
  <2> QED  BY Zenon, <2>1, <2>5, <2>6, Untouched
<1>4. ASSUME LockNetworkd  PROVE Types'
  <2>1. NetworkdType'  BY Zenon, <1>4 DEF LockNetworkd, NetworkdType
  <2>2. UNCHANGED <<envVars, rtnl, watch, stateVars, kernelVars, setterVars, queryVars, history>>
    BY Zenon, <1>4 DEF LockNetworkd
  <2> QED  BY Zenon, <2>1, <2>2, Untouched
<1>5. ASSUME SyncNetworkdTable  PROVE Types'
  <2>1. table' \in [Links -> LinkStates]  BY Zenon, <1>5, SyncedFacts DEF SyncNetworkdTable
  <2>2. networkd' \in [Links -> NetworkdStates] /\ specs' = specs
    BY Zenon, <1>5 DEF SyncNetworkdTable, NetworkdType
  <2>3. todo' \subseteq [link : Links, spec : Specs]
    BY Zenon, <1>5, IdentityFacts DEF SyncNetworkdTable
  <2>4. /\ npc' = "specs" /\ nchanged' \in BOOLEAN /\ HistoryType'
        /\ UNCHANGED <<incoming, unread, started>>
    BY Zenon, <1>5 DEF SyncNetworkdTable, HistoryType
  <2>5. StateType' /\ NetworkdType'  BY Zenon, <2>1, <2>2, <2>3, <2>4 DEF StateType, NetworkdType
  <2>6. UNCHANGED <<envVars, rtnl, watch, kernelVars, setterVars, queryVars>>
    BY Zenon, <1>5 DEF SyncNetworkdTable
  <2> QED  BY Zenon, <2>4, <2>5, <2>6, Untouched
<1>6. ASSUME StoreSpecs  PROVE Types'
  <2>1. PICK i \in todo : specs' = [specs EXCEPT ![i.link] = i.spec] /\ todo' = todo \ {i}
    BY Zenon, <1>6 DEF StoreSpecs
  <2>2. i.link \in Links /\ i.spec \in Specs  BY <2>1 DEF NetworkdType
  <2>3. specs' \in [Links -> Specs] /\ todo' \subseteq [link : Links, spec : Specs]
    BY Zenon, <2>1, <2>2 DEF StateType, NetworkdType
  <2>4. /\ UNCHANGED <<table, networkd, npc, incoming, unread, started>>
        /\ nchanged' \in BOOLEAN /\ HistoryType'
    BY Zenon, <1>6 DEF StoreSpecs, HistoryType
  <2>5. StateType' /\ NetworkdType'  BY Zenon, <2>3, <2>4 DEF StateType, NetworkdType
  <2>6. UNCHANGED <<envVars, rtnl, watch, kernelVars, setterVars, queryVars>>
    BY Zenon, <1>6 DEF StoreSpecs
  <2> QED  BY Zenon, <2>4, <2>5, <2>6, Untouched
<1>7. ASSUME FinishNetworkd  PROVE Types'
  <2>1. WakeType' /\ NetworkdType' /\ HistoryType'
    BY Zenon, <1>7, RecordFacts DEF FinishNetworkd, WakeType, NetworkdType, HistoryType
  <2>2. UNCHANGED <<envVars, stateVars, kernelVars, setterVars, queryVars>>
    BY Zenon, <1>7 DEF FinishNetworkd
  <2> QED  BY Zenon, <2>1, <2>2, Untouched
<1>8. ASSUME SyncNetworkdFails  PROVE Types'
  <2>1. StateType'  BY Zenon, <1>8, FailedFacts DEF SyncNetworkdFails, StateType
  <2>2. WakeType' /\ NetworkdType'
    BY Zenon, <1>8, RecordFacts DEF SyncNetworkdFails, GiveUp, WakeType, NetworkdType
  <2>3. HistoryType'  BY Zenon, <1>8 DEF SyncNetworkdFails, HistoryType
  <2>4. UNCHANGED <<envVars, kernelVars, setterVars, queryVars>>  BY Zenon, <1>8 DEF SyncNetworkdFails
  <2> QED  BY Zenon, <2>1, <2>2, <2>3, <2>4, Untouched
<1>9. ASSUME NetworkdEnds  PROVE Types'
  <2>1. EnvType' /\ WakeType' /\ NetworkdType'
    BY Zenon, <1>9 DEF NetworkdEnds, EnvType, WakeType, NetworkdType
  <2>2. UNCHANGED <<stateVars, kernelVars, setterVars, queryVars, history>>
    BY Zenon, <1>9 DEF NetworkdEnds
  <2> QED  BY Zenon, <2>1, <2>2, Untouched
<1> QED  BY Zenon, <1>1, <1>2, <1>3, <1>4, <1>5, <1>6, <1>7, <1>8, <1>9 DEF NetworkdThread

(* A D-Bus call is about one link and does one of three things.            *)
LEMMA CallLinks == \A c \in Calls : c.link \in Links /\ c.op \in {"dns", "option", "revert"}
BY DEF Calls

(* What a setter makes of a link: it stays in the table, in the kernel's   *)
(* state.                                                                  *)
LEMMA AppliedFacts ==
    ASSUME LinkConstants, NEW t \in LinkStates, NEW c \in Calls
    PROVE  /\ Applied(t, c) \in LinkStates
           /\ t.live => Applied(t, c).live /\ Applied(t, c).up = t.up
           /\ c.op = "dns" => Applied(t, c).dns = c.dns
           /\ c.op = "option" => Applied(t, c).dns = t.dns
           /\ c.op = "revert" => Applied(t, c).dns = NoDns
           /\ c.op \in {"dns", "option", "revert"} /\ c.link \in Links
<1>1. /\ c.op \in {"dns", "option", "revert"} /\ c.link \in Links
      /\ c.op = "dns" => c.dns \in DnsLists \cup {NoDns}
      /\ c.op = "option" => c.option \in Options
  BY DEF Calls
<1>2. CASE c.op = "dns"
  <2>1. PICK d \in DnsLists \cup {NoDns} : d = c.dns  BY <1>1, <1>2
  <2>2. Applied(t, c) = [t EXCEPT !.dns = d]  BY <1>2, <2>1 DEF Applied
  <2>3. /\ [t EXCEPT !.dns = d] \in LinkStates
        /\ [t EXCEPT !.dns = d].live = t.live /\ [t EXCEPT !.dns = d].up = t.up
        /\ [t EXCEPT !.dns = d].dns = d
    BY <2>1 DEF LinkStates
  <2> QED  BY <1>1, <1>2, <2>1, <2>2, <2>3
<1>3. CASE c.op = "option"
  <2>1. PICK o \in Options : o = c.option  BY <1>1, <1>3
  <2>2. Applied(t, c) = [t EXCEPT !.option = o]  BY <1>3, <2>1 DEF Applied
  <2>3. /\ [t EXCEPT !.option = o] \in LinkStates
        /\ [t EXCEPT !.option = o].live = t.live /\ [t EXCEPT !.option = o].up = t.up
        /\ [t EXCEPT !.option = o].dns = t.dns
    BY <2>1 DEF LinkStates
  <2> QED  BY <1>1, <1>3, <2>1, <2>2, <2>3
<1>4. CASE c.op = "revert"
  <2>1. Applied(t, c) = NewLink(t.up)  BY <1>4 DEF Applied
  <2>2. PICK x \in BOOLEAN : x = t.up  BY Zenon, RecordFacts
  <2>3. /\ NewLink(x) \in LinkStates /\ NewLink(x).live = TRUE /\ NewLink(x).up = x
        /\ NewLink(x).dns = NoDns
    BY Zenon, NewLinks
  <2> QED  BY <1>1, <1>4, <2>1, <2>2, <2>3
<1> QED  BY Zenon, <1>1, <1>2, <1>3, <1>4

(* The spec a setter stores.                                               *)
SpecOf(c) == IF c.op = "dns" THEN [dns |-> c.dns, name |-> c.name] ELSE NoSpec
(* It is of the type, and that of the servers the call sets.               *)
LEMMA SpecFacts ==
    ASSUME LinkConstants, NEW c \in Calls
    PROVE  SpecOf(c) \in Specs /\ (c.op = "dns" => SpecOf(c).dns = c.dns)
<1>1. c.op = "dns" => c.dns \in DnsLists \cup {NoDns} /\ c.name \in Names \cup {NoName}  BY DEF Calls
<1> QED  BY <1>1, RecordFacts DEF SpecOf, Specs

(* The setters.                                                            *)
LEMMA SetterTypes ==
    ASSUME LinkConstants, Types, NEW u \in Setters, StartCall(u) \/ Setter(u)
    PROVE  Types'
<1> USE DEF Types
<1>0. pc[u] # "idle" => call[u] \in Calls  BY Zenon DEF SetterType
<1>1. ASSUME StartCall(u)  PROVE Types'
  <2>1. calls' \in [Setters -> 0 .. MaxCalls]
    <3>1. calls[u] \in 0 .. MaxCalls /\ calls[u] < MaxCalls /\ MaxCalls \in Nat
      BY Zenon, <1>1 DEF StartCall, SetterType, LinkConstants
    <3>2. calls[u] + 1 \in 0 .. MaxCalls  BY <3>1
    <3> QED  BY Zenon, <1>1, <3>2 DEF StartCall, SetterType
  <2>2. PICK c \in Calls : call' = [call EXCEPT ![u] = c]  BY Zenon, <1>1 DEF StartCall
  <2>3. pc' = [pc EXCEPT ![u] = "check"] /\ changed' = changed  BY Zenon, <1>1 DEF StartCall
  <2>4. SetterType'  BY Zenon, <2>1, <2>2, <2>3 DEF SetterType
  <2>5. UNCHANGED <<envVars, rtnl, watch, stateVars, kernelVars, networkdVars, queryVars, history>>
    BY Zenon, <1>1 DEF StartCall
  <2> QED  BY Zenon, <2>4, <2>5, Untouched
<1>2. ASSUME EndCall(u), changed' \in [Setters -> BOOLEAN], calls' = calls  PROVE SetterType'
  BY Zenon, <1>2 DEF EndCall, SetterType
<1>3. ASSUME ensure_link_writable(u)  PROVE Types'
  <2>1. changed' = changed /\ calls' = calls  BY Zenon, <1>3 DEF ensure_link_writable
  <2>2. CASE networkd[call[u].link].managed
    <3>1. EndCall(u)  BY Zenon, <1>3, <2>2 DEF ensure_link_writable
    <3>2. SetterType'  BY Zenon, <1>2, <2>1, <3>1 DEF SetterType
    <3>3. UNCHANGED <<envVars, rtnl, watch, stateVars, kernelVars, networkdVars, queryVars, history>>
      BY Zenon, <1>3 DEF ensure_link_writable
    <3> QED  BY Zenon, <3>2, <3>3, Untouched
  <2>3. CASE ~networkd[call[u].link].managed
    <3>1. pc[u] = "check" /\ pc' = [pc EXCEPT ![u] = "table"] /\ call' = call
      BY Zenon, <1>3, <2>3 DEF ensure_link_writable
    <3>2. SetterType'  BY Zenon, <1>0, <2>1, <3>1 DEF SetterType
    <3>3. UNCHANGED <<envVars, rtnl, watch, stateVars, kernelVars, networkdVars, queryVars, history>>
      BY Zenon, <1>3 DEF ensure_link_writable
    <3> QED  BY Zenon, <3>2, <3>3, Untouched
  <2> QED  BY Zenon, <2>2, <2>3
<1>4. ASSUME SetTable(u)  PROVE Types'
  <2>0. call[u] \in Calls /\ calls' = calls  BY Zenon, <1>0, <1>4 DEF SetTable
  <2>1. UNCHANGED <<envVars, rtnl, watch, kernelVars, networkdVars, queryVars, networkd, specs>>
    BY Zenon, <1>4 DEF SetTable
  <2>2. CASE ~table[call[u].link].live
    <3>1. EndCall(u) /\ UNCHANGED <<table, changed, history>>  BY Zenon, <1>4, <2>2 DEF SetTable, history
    <3>2. SetterType'  BY Zenon, <1>2, <2>0, <3>1 DEF SetterType
    <3>3. UNCHANGED stateVars  BY Zenon, <2>1, <3>1 DEF stateVars
    <3> QED  BY Zenon, <2>1, <3>1, <3>2, <3>3, Untouched
  <2>3. CASE table[call[u].link].live
    <3>1. PICK c \in Calls : c = call[u]  BY Zenon, <2>0
    <3>2. /\ table' = [table EXCEPT ![c.link] = Applied(table[c.link], c)]
          /\ HistoryType' /\ call' = call
          /\ changed' = [changed EXCEPT ![u] = table' # table]
          /\ pc' = [pc EXCEPT ![u] = IF c.op = "option" THEN "finish" ELSE "specs"]
      BY Zenon, <1>4, <2>3, <3>1 DEF SetTable, HistoryType
    <3>3. c.link \in Links  BY Zenon, AppliedFacts, <3>1 DEF Calls
    <3>4. Applied(table[c.link], c) \in LinkStates  BY Zenon, <3>1, <3>3, AppliedFacts DEF StateType
    <3>5. StateType'  BY Zenon, <2>1, <3>2, <3>3, <3>4 DEF StateType
    <3>6. SetterType'  BY Zenon, <2>0, <3>2 DEF SetterType
    <3> QED  BY Zenon, <2>1, <3>2, <3>5, <3>6, Untouched
  <2> QED  BY Zenon, <2>2, <2>3
<1>5. ASSUME SetSpecs(u)  PROVE Types'
  <2>0. call[u] \in Calls /\ calls' = calls /\ call' = call  BY Zenon, <1>0, <1>5 DEF SetSpecs
  <2>1. UNCHANGED <<envVars, rtnl, watch, kernelVars, networkdVars, queryVars, table, networkd>>
    BY Zenon, <1>5 DEF SetSpecs
  <2>2. PICK c \in Calls : c = call[u]  BY Zenon, <2>0
  <2>3. /\ specs' = [specs EXCEPT ![c.link] = SpecOf(c)] /\ HistoryType'
        /\ changed' = [changed EXCEPT ![u] = changed[u] \/ specs' # specs]
        /\ pc' = [pc EXCEPT ![u] = "finish"]
    BY Zenon, <1>5, <2>2 DEF SetSpecs, SpecOf, HistoryType
  <2>4. SpecOf(c) \in Specs  BY Zenon, <2>2, SpecFacts
  <2>5. StateType'  BY Zenon, <2>1, <2>3, <2>4 DEF StateType
  <2>6. SetterType'  BY Zenon, <2>0, <2>3 DEF SetterType
  <2> QED  BY Zenon, <2>1, <2>3, <2>5, <2>6, Untouched
<1>6. ASSUME FinishCall(u)  PROVE Types'
  <2>1. EndCall(u) /\ calls' = calls /\ changed' \in [Setters -> BOOLEAN] /\ HistoryType'
    BY Zenon, <1>6 DEF FinishCall, SetterType, HistoryType
  <2>2. SetterType'  BY Zenon, <1>2, <2>1
  <2>3. UNCHANGED <<envVars, rtnl, watch, stateVars, kernelVars, networkdVars, queryVars>>
    BY Zenon, <1>6 DEF FinishCall
  <2> QED  BY Zenon, <2>1, <2>2, <2>3, Untouched
<1> QED  BY Zenon, <1>1, <1>3, <1>4, <1>5, <1>6 DEF Setter

(* The queries.                                                            *)
LEMMA QuerierTypes ==
    ASSUME LinkConstants, Types, NEW q \in Queriers, Select(q) \/ Querier(q)
    PROVE  Types'
<1> USE DEF Types
<1>1. QueryType'
  <2>1. CASE Select(q)
    <3>1. PICK chosen \in SUBSET Links : scopes' = [scopes EXCEPT ![q] = chosen]  BY Zenon,
                                                                                     <2>1 DEF Select
    <3> QED  BY Zenon, <2>1, <3>1 DEF Select, QueryType
  <2>2. CASE Filter(q)
    <3>1. PICK s \in SUBSET Links : scopes' = [scopes EXCEPT ![q] = s]
      <4>1. scopes[q] \subseteq Links  BY Zenon DEF QueryType
      <4>2. {l \in scopes[q] : networkd[l].managed => networkd[l].relevant} \in SUBSET Links  BY Zenon, <4>1
      <4> QED  BY Zenon, <2>2, <4>2 DEF Filter
    <3> QED  BY Zenon, <2>2, <3>1 DEF Filter, QueryType
  <2>3. CASE Ask(q)  BY Zenon, <2>3 DEF Ask, QueryType
  <2> QED  BY Zenon, <2>1, <2>2, <2>3 DEF Querier
<1>2. UNCHANGED <<envVars, rtnl, watch, stateVars, kernelVars, networkdVars, setterVars, history>>
  BY Zenon DEF Select, Querier, Filter, Ask
<1> QED  BY Zenon, <1>1, <1>2, Untouched

(* main starts with every variable of its type, the table filled by the    *)
(* first netlink::synchronize.                                             *)
LEMMA InitTypes == ASSUME LinkConstants, Init PROVE Types
<1>1. EnvType
  <2>1. 0 \in 0 .. MaxEvents  BY DEF LinkConstants
  <2>2. \A l \in Links : file[l] \in FileStates[l]  BY Zenon DEF Init, LinkConstants
  <2> QED  BY Zenon, <2>1, <2>2 DEF Init, EnvType
<1>2. table \in [Links -> LinkStates]
  <2>1. [l \in Links |-> NoLink] \in [Links -> LinkStates]  BY Zenon, RecordFacts
  <2>2. PICK tab \in [Links -> LinkStates] : tab = [l \in Links |-> NoLink]  BY Zenon, <2>1
  <2> QED  BY Zenon, <2>2, KernelSyncedFacts DEF Init
<1>3. StateType  BY Zenon, <1>2, RecordFacts DEF Init, StateType
<1>4. WakeType /\ KernelType  BY Zenon DEF Init, WakeType, KernelType
<1>5. NetworkdType  BY Zenon, RecordFacts DEF Init, NetworkdType
<1>6. SetterType
  <2>1. 0 \in 0 .. MaxCalls  BY DEF LinkConstants
  <2> QED  BY Zenon, <2>1 DEF Init, SetterType
<1>7. QueryType  BY Zenon DEF Init, QueryType
<1>8. HistoryType  BY Zenon DEF Init, HistoryType
<1> QED  BY Zenon, <1>1, <1>3, <1>4, <1>5, <1>6, <1>7, <1>8 DEF Types

(* A step in which nothing happens.                                        *)
LEMMA StillTypes == ASSUME Types, UNCHANGED vars PROVE Types'
BY Zenon, Untouched DEF Types, vars

(* Every step of every thread keeps the types.                             *)
LEMMA NextTypes == ASSUME LinkConstants, Types, [Next]_vars PROVE Types'
BY Zenon, KernelTypes, NetworkdTypes, SetterTypes, QuerierTypes, StillTypes DEF Next, Quiescent

(***************************************************************************)
(* Every variable of the threads, tables and locks keeps its type.         *)
(***************************************************************************)
THEOREM LinkTypesHold == ASSUME LinkConstants PROVE Spec => []TypeOK
<1>1. Init => Types  BY Zenon, InitTypes
<1>2. Types /\ [Next]_vars => Types'  BY Zenon, NextTypes
<1>3. Types => TypeOK  BY Zenon, TypesAreTypes
<1> QED  BY <1>1, <1>2, <1>3, PTL DEF Spec

(* The links of the table and the kernel's state of each stay as they are. *)
SameLinks == \A l \in Links : table'[l].live = table[l].live /\ table'[l].up = table[l].up

(* What may change the routing table: the RTNL thread, when no query reads *)
(* it, which makes it follow the snapshot, and otherwise only steps that   *)
(* keep which links there are and the kernel's state of each.              *)
LEMMA TableSteps ==
    ASSUME LinkConstants, Types, [Next]_vars
    PROVE  \/ UNCHANGED table
           \/ SyncKernelTable
           \/ SameLinks /\ ~RoutingRead /\ UNCHANGED <<envVars, kernelVars, queryVars, rtnl>>
<1>1. ASSUME SyncNetworkdTable
      PROVE  SameLinks /\ ~RoutingRead /\ UNCHANGED <<envVars, kernelVars, queryVars, rtnl>>
  <2>1. \A l \in Links : table'[l] = Synced(l)  BY Zenon, <1>1 DEF SyncNetworkdTable
  <2>2. SameLinks  BY Zenon, <2>1, SyncedFacts DEF SameLinks
  <2> QED  BY Zenon, <1>1, <2>2 DEF SyncNetworkdTable
<1>9. ASSUME SyncNetworkdFails
      PROVE  SameLinks /\ ~RoutingRead /\ UNCHANGED <<envVars, kernelVars, queryVars, rtnl>>
  <2>1. SameLinks  BY Zenon, <1>9, FailedFacts DEF SameLinks
  <2> QED  BY Zenon, <1>9, <2>1 DEF SyncNetworkdFails
<1>2. ASSUME NEW u \in Setters, SetTable(u)
      PROVE  \/ UNCHANGED table
             \/ SameLinks /\ ~RoutingRead /\ UNCHANGED <<envVars, kernelVars, queryVars, rtnl>>
  <2>1. CASE ~table[call[u].link].live  BY Zenon, <1>2, <2>1 DEF SetTable
  <2>2. CASE table[call[u].link].live
    <3>1. PICK c \in Calls : c = call[u]  BY Zenon, <1>2 DEF SetTable, Types, SetterType
    <3>2. table' = [table EXCEPT ![c.link] = Applied(table[c.link], c)]
      BY Zenon, <1>2, <2>2, <3>1 DEF SetTable
    <3>3. table \in [Links -> LinkStates]  BY Zenon DEF Types, StateType
    <3>4. c.link \in Links /\ table[c.link].live /\ table[c.link] \in LinkStates
      BY Zenon, <2>2, <3>1, <3>3, AppliedFacts DEF Calls
    <3>5. PICK t \in LinkStates : t = table[c.link]  BY Zenon, <3>4
    <3>6. Applied(t, c) \in LinkStates /\ Applied(t, c).live /\ Applied(t, c).up = t.up
      BY Zenon, <3>1, <3>4, <3>5, AppliedFacts
    <3>7. Applied(t, c).live = t.live  BY Zenon, <3>4, <3>5, <3>6, RecordFacts
    <3>8. SameLinks  BY Zenon, <3>2, <3>3, <3>4, <3>5, <3>6, <3>7 DEF SameLinks
    <3> QED  BY Zenon, <1>2, <3>8 DEF SetTable
  <2> QED  BY Zenon, <2>1, <2>2
<1>3. ASSUME NEW l \in Links, KernelChanges(l) \/ NetworkdWrites(l) \/ ReadFile(l)  PROVE UNCHANGED table
  BY Zenon, <1>3 DEF KernelChanges, NetworkdWrites, ReadFile, stateVars
<1>4. ASSUME OpenRtnl \/ RtnlWakes \/ ListLinks \/ RetainSpecs \/ FinishKernel \/ RtnlEnds
      PROVE  UNCHANGED table
  BY Zenon, <1>4 DEF OpenRtnl, RtnlWakes, ListLinks, RetainSpecs, FinishKernel, RtnlEnds, stateVars
<1>5. ASSUME OpenWatch \/ BeginSync \/ LockNetworkd \/ StoreSpecs \/ FinishNetworkd \/ NetworkdEnds
      PROVE  UNCHANGED table
  BY Zenon, <1>5 DEF OpenWatch, BeginSync, LockNetworkd, StoreSpecs, FinishNetworkd, NetworkdEnds,
     stateVars
<1>6. ASSUME NEW u \in Setters, StartCall(u) \/ ensure_link_writable(u) \/ SetSpecs(u) \/ FinishCall(u)
      PROVE  UNCHANGED table
  BY Zenon, <1>6 DEF StartCall, ensure_link_writable, SetSpecs, FinishCall, stateVars
<1>7. ASSUME NEW q \in Queriers, Select(q) \/ Querier(q)  PROVE UNCHANGED table
  BY Zenon, <1>7 DEF Select, Querier, Filter, Ask, stateVars
<1>8. ASSUME UNCHANGED vars  PROVE UNCHANGED table  BY Zenon, <1>8 DEF vars, stateVars
<1> QED
  BY Zenon, <1>1, <1>2, <1>3, <1>4, <1>5, <1>6, <1>7, <1>8, <1>9
     DEF Next, RtnlThread, NetworkdThread, Setter, Quiescent

(***************************************************************************)
(* The flags route_changed, identity_changed and their likes are local to  *)
(* one run of a handler: they are clear until it has changed something.    *)
(***************************************************************************)
Published ==
    /\ EveryChangePublished
    /\ kpc \in {"open", "wait", "table", "ended"} => ~kchanged
    /\ npc # "specs" => ~nchanged
    /\ \A u \in Setters : pc[u] \in {"idle", "check", "table"} => ~changed[u]

(* Every step keeps the flags of the handlers and the history of changes   *)
(* in agreement.                                                           *)
LEMMA NextPublished == ASSUME LinkConstants, Types, Published, [Next]_vars PROVE Published'
<1>0. /\ kchanged \in BOOLEAN /\ nchanged \in BOOLEAN /\ unpublished \in BOOLEAN /\ lost \in BOOLEAN
      /\ changed \in [Setters -> BOOLEAN] /\ pc \in [Setters -> {"idle", "check", "table", "specs", "finish"}]
  BY Zenon DEF Types, KernelType, NetworkdType, SetterType, HistoryType
<1>1. ASSUME UNCHANGED <<kchanged, nchanged, setterVars, unpublished, lost>>,
             kpc' \in {"open", "wait", "table", "ended"} => ~kchanged,
             npc' # "specs" => ~nchanged
      PROVE  Published'
  BY Zenon, <1>1 DEF Published, EveryChangePublished, setterVars
<1>2. ASSUME NEW l \in Links, KernelChanges(l) \/ NetworkdWrites(l) \/ ReadFile(l)  PROVE Published'
  BY Zenon, <1>1, <1>2
     DEF Published, KernelChanges, NetworkdWrites, ReadFile, GiveUp, kernelVars, networkdVars, history
<1>3. ASSUME OpenRtnl \/ RtnlWakes \/ ListLinks \/ RtnlEnds  PROVE Published'
  BY Zenon, <1>1, <1>3 DEF Published, OpenRtnl, RtnlWakes, ListLinks, RtnlEnds, networkdVars, history
<1>4. ASSUME OpenWatch \/ BeginSync \/ LockNetworkd \/ NetworkdEnds  PROVE Published'
  BY Zenon, <1>1, <1>4
     DEF Published, OpenWatch, BeginSync, LockNetworkd, NetworkdEnds, kernelVars, history
<1>5. ASSUME NEW q \in Queriers, Select(q) \/ Querier(q)  PROVE Published'
  BY Zenon, <1>1, <1>5 DEF Published, Select, Querier, Filter, Ask, kernelVars, networkdVars, history
<1>6. ASSUME UNCHANGED vars  PROVE Published'
  BY Zenon, <1>1, <1>6 DEF Published, vars, kernelVars, networkdVars, history
<1>7. ASSUME SyncKernelTable \/ RetainSpecs  PROVE Published'
  <2>1. /\ UNCHANGED <<networkdVars, setterVars, lost>>
        /\ kpc' \in {"list", "finish"}
        /\ (unpublished' => unpublished \/ kchanged') /\ (kchanged => kchanged')
    BY Zenon, <1>0, <1>7 DEF SyncKernelTable, RetainSpecs, Published
  <2> QED  BY Zenon, <1>0, <2>1 DEF Published, EveryChangePublished, networkdVars, setterVars
<1>8. ASSUME FinishKernel  PROVE Published'
  <2>1. /\ UNCHANGED <<networkdVars, setterVars>>
        /\ unpublished' = (unpublished /\ ~kchanged) /\ kchanged' = FALSE
        /\ lost' = (lost /\ ~kchanged)
    BY Zenon, <1>8 DEF FinishKernel
  <2> QED  BY Zenon, <1>0, <2>1 DEF Published, EveryChangePublished, networkdVars, setterVars
<1>9. ASSUME SyncNetworkdTable \/ StoreSpecs  PROVE Published'
  <2>1. /\ UNCHANGED <<kernelVars, setterVars, lost>>
        /\ npc' = "specs" /\ (unpublished' => unpublished \/ nchanged') /\ (nchanged => nchanged')
    BY Zenon, <1>0, <1>9 DEF SyncNetworkdTable, StoreSpecs, Published
  <2> QED  BY Zenon, <1>0, <2>1 DEF Published, EveryChangePublished, kernelVars, setterVars
<1>10. ASSUME FinishNetworkd  PROVE Published'
  <2>1. /\ UNCHANGED <<kernelVars, setterVars>>
        /\ unpublished' = (unpublished /\ ~nchanged) /\ nchanged' = FALSE
        /\ lost' = (lost /\ ~nchanged)
    BY Zenon, <1>10 DEF FinishNetworkd
  <2> QED  BY Zenon, <1>0, <2>1 DEF Published, EveryChangePublished, kernelVars, setterVars
<1>12. ASSUME SyncNetworkdFails  PROVE Published'
  <2>1. /\ UNCHANGED <<kernelVars, setterVars, nchanged>> /\ npc = "table"
        /\ (unpublished' => unpublished \/ lost') /\ (lost => lost')
    BY Zenon, <1>0, <1>12 DEF SyncNetworkdFails
  <2> QED  BY Zenon, <1>0, <2>1 DEF Published, EveryChangePublished, kernelVars, setterVars
<1>11. ASSUME NEW u \in Setters, StartCall(u) \/ Setter(u)  PROVE Published'
  <2>0. UNCHANGED <<kpc, kchanged, npc, nchanged>>
    BY Zenon, <1>11 DEF StartCall, Setter, ensure_link_writable, SetTable, SetSpecs, FinishCall,
                        kernelVars, networkdVars
  <2>1. CASE UNCHANGED <<changed, unpublished, lost>> /\ pc[u] \in {"idle", "check", "table"}
             /\ \E p : pc' = [pc EXCEPT ![u] = p]
    <3>1. \A v \in Setters : pc'[v] \in {"idle", "check", "table"} => ~changed'[v]
      BY Zenon, <1>0, <2>1 DEF Published
    <3> QED  BY Zenon, <2>0, <2>1, <3>1 DEF Published, EveryChangePublished
  <2>2. CASE /\ \E x \in BOOLEAN : changed' = [changed EXCEPT ![u] = x] /\ lost' = lost
             /\ changed[u] => changed'[u]
             /\ unpublished' => unpublished \/ changed'[u]
             /\ \E p \in {"specs", "finish"} : pc' = [pc EXCEPT ![u] = p]
    <3>1. PICK x \in BOOLEAN : changed' = [changed EXCEPT ![u] = x]  BY Zenon, <2>2
    <3>2. changed'[u] = x /\ \A v \in Setters \ {u} : changed'[v] = changed[v] /\ pc'[v] = pc[v]
      BY Zenon, <1>0, <2>2, <3>1
    <3>3. pc'[u] \in {"specs", "finish"}  BY Zenon, <1>0, <1>11, <2>2
    <3>4. \A v \in Setters : pc'[v] \in {"idle", "check", "table"} => ~changed'[v]
      BY Zenon, <3>2, <3>3 DEF Published
    <3>5. EveryChangePublished'
      <4>1. CASE changed'[u]  BY Zenon, <1>11, <4>1 DEF EveryChangePublished
      <4>2. CASE ~changed'[u]
        <5>1. lost' = lost /\ (unpublished' => unpublished /\ ~changed[u])  BY Zenon, <2>2, <4>2
        <5> QED  BY Zenon, <2>0, <3>2, <5>1 DEF Published, EveryChangePublished
      <4> QED  BY Zenon, <4>1, <4>2
    <3> QED  BY Zenon, <2>0, <3>4, <3>5 DEF Published
  <2>3. CASE StartCall(u) \/ ensure_link_writable(u)
    BY Zenon, <2>1, <2>3 DEF StartCall, ensure_link_writable, EndCall, history
  <2>4. CASE SetTable(u) /\ ~table[call[u].link].live
    BY Zenon, <2>1, <2>4 DEF SetTable, EndCall
  <2>5. CASE SetTable(u) /\ table[call[u].link].live
    <3>1. ~changed[u]  BY Zenon, <1>11, <2>5 DEF SetTable, Published
    <3>2. /\ changed' = [changed EXCEPT ![u] = table' # table] /\ (table' # table) \in BOOLEAN
          /\ unpublished' = (unpublished \/ table' # table) /\ lost' = lost
          /\ \E p \in {"specs", "finish"} : pc' = [pc EXCEPT ![u] = p]
      BY Zenon, <2>5 DEF SetTable
    <3>3. changed'[u] = (table' # table)  BY Zenon, <1>0, <1>11, <3>2
    <3> QED  BY Zenon, <2>2, <3>1, <3>2, <3>3
  <2>6. CASE SetSpecs(u)
    <3>2. /\ changed' = [changed EXCEPT ![u] = changed[u] \/ specs' # specs]
          /\ (changed[u] \/ specs' # specs) \in BOOLEAN
          /\ unpublished' = (unpublished \/ specs' # specs) /\ lost' = lost
          /\ \E p \in {"specs", "finish"} : pc' = [pc EXCEPT ![u] = p]
      BY Zenon, <2>6 DEF SetSpecs
    <3>3. changed'[u] = (changed[u] \/ specs' # specs)  BY Zenon, <1>0, <1>11, <3>2
    <3> QED  BY Zenon, <2>2, <3>2, <3>3
  <2>7. CASE FinishCall(u)
    <3>1. /\ unpublished' = (unpublished /\ ~changed[u]) /\ lost' = (lost /\ ~changed[u]) /\ changed' = [changed EXCEPT ![u] = FALSE]
          /\ pc' = [pc EXCEPT ![u] = "idle"]
      BY Zenon, <2>7 DEF FinishCall, EndCall
    <3>2. ~changed'[u] /\ \A v \in Setters \ {u} : changed'[v] = changed[v] /\ pc'[v] = pc[v]
      BY Zenon, <1>0, <1>11, <3>1
    <3>3. \A v \in Setters : pc'[v] \in {"idle", "check", "table"} => ~changed'[v]
      BY Zenon, <3>2 DEF Published
    <3>4. EveryChangePublished'  BY Zenon, <2>0, <3>1, <3>2 DEF Published, EveryChangePublished
    <3> QED  BY Zenon, <2>0, <3>3, <3>4 DEF Published
  <2> QED  BY Zenon, <1>11, <2>3, <2>4, <2>5, <2>6, <2>7 DEF Setter
<1> QED
  BY Zenon, <1>2, <1>3, <1>4, <1>5, <1>6, <1>7, <1>8, <1>9, <1>10, <1>11, <1>12
     DEF Next, RtnlThread, NetworkdThread, Quiescent

(***************************************************************************)
(* finish_routing_change is never forgotten but by the early returns of    *)
(* sync_networkd_links: whatever the threads, their interleaving and the   *)
(* changes, while the table or the specs differ from what was published,   *)
(* a thread that changed them is still on its way to bump the generation,  *)
(* or such a return has left a change since the last bump.                 *)
(***************************************************************************)
THEOREM ChangesArePublished == ASSUME LinkConstants PROVE Spec => []EveryChangePublished
<1>1. Init => Types /\ Published
  BY Zenon, InitTypes DEF Init, Published, EveryChangePublished
<1>2. Types /\ Published /\ [Next]_vars => (Types /\ Published)'  BY Zenon, NextTypes, NextPublished
<1>3. Published => EveryChangePublished  BY Zenon DEF Published
<1> QED  BY <1>1, <1>2, <1>3, PTL DEF Spec

(***************************************************************************)
(* The RTNL thread.  Until its socket is open nothing signals it; with an  *)
(* open socket and nothing signalled, its snapshot is the kernel's state,  *)
(* and from sync_kernel_links on the table follows the snapshot, whatever  *)
(* the other threads write in between.                                     *)
(***************************************************************************)
KernelOK ==
    /\ kpc = "open" => snapshot = NoSnapshot /\ rtnl = "closed"
    /\ kpc # "open" => rtnl \in {"open", "signalled"}
    /\ kpc # "open" /\ rtnl = "open" /\ snapshot # NoSnapshot => snapshot = kernel
    /\ kpc \in {"wait", "list", "specs", "finish", "ended"} /\ snapshot # NoSnapshot => Follows(table, snapshot)

(* Every step keeps the RTNL thread's socket, snapshot and table in        *)
(* agreement.                                                              *)
LEMMA NextKernel == ASSUME LinkConstants, Types, KernelOK, [Next]_vars PROVE KernelOK'
<1>1. ASSUME UNCHANGED <<kernel, rtnl, kpc, snapshot>>, UNCHANGED table \/ SameLinks  PROVE KernelOK'
  <2>1. Follows(table, snapshot) => Follows(table, snapshot)'
    BY Zenon, <1>1 DEF Follows, SameLinks
  <2> QED  BY Zenon, <1>1, <2>1 DEF KernelOK
<1>2. ASSUME NEW l \in Links, KernelChanges(l)  PROVE KernelOK'
  <2>1. UNCHANGED <<kpc, snapshot, table>> /\ rtnl' = Signal(rtnl)
    BY Zenon, <1>2 DEF KernelChanges, kernelVars, stateVars
  <2>2. CASE kpc = "open"
    <3>1. rtnl' = "closed"  BY Zenon, <2>1, <2>2 DEF KernelOK, Signal
    <3> QED  BY Zenon, <2>1, <2>2, <3>1 DEF KernelOK
  <2>3. CASE kpc # "open"
    <3>1. rtnl' = "signalled"  BY Zenon, <2>1, <2>3 DEF KernelOK, Signal
    <3>2. Follows(table, snapshot) => Follows(table, snapshot)'  BY Zenon, <2>1 DEF Follows
    <3> QED  BY Zenon, <2>1, <2>3, <3>1, <3>2 DEF KernelOK
  <2> QED  BY Zenon, <2>2, <2>3
<1>3. ASSUME OpenRtnl  PROVE KernelOK'
  BY Zenon, <1>3 DEF OpenRtnl, KernelOK
<1>4. ASSUME RtnlWakes  PROVE KernelOK'
  BY Zenon, <1>4 DEF RtnlWakes, KernelOK, envVars
<1>12. ASSUME RtnlEnds  PROVE KernelOK'
  <2>1. UNCHANGED <<kernel, rtnl, snapshot, table>> /\ kpc = "wait" /\ kpc' = "ended"
    BY Zenon, <1>12 DEF RtnlEnds, stateVars
  <2>2. Follows(table, snapshot) => Follows(table, snapshot)'  BY Zenon, <2>1 DEF Follows
  <2> QED  BY Zenon, <2>1, <2>2 DEF KernelOK
<1>5. ASSUME SyncKernelTable  PROVE KernelOK'
  <2>1. UNCHANGED <<kernel, rtnl, snapshot>> /\ kpc = "table" /\ kpc' = "list"
    BY Zenon, <1>5 DEF SyncKernelTable, envVars
  <2>2. table \in [Links -> LinkStates]  BY Zenon DEF Types, StateType
  <2>3. Follows(table', snapshot)  BY Zenon, <1>5, <2>2, KernelSyncedFacts DEF SyncKernelTable
  <2>4. Follows(table, snapshot)'  BY Zenon, <2>1, <2>3 DEF Follows
  <2> QED  BY Zenon, <2>1, <2>4 DEF KernelOK
<1>6. ASSUME ListLinks \/ RetainSpecs \/ FinishKernel  PROVE KernelOK'
  <2>1. /\ UNCHANGED <<kernel, rtnl, snapshot, table>>
        /\ kpc \in {"list", "specs", "finish"} /\ kpc' \in {"specs", "finish", "wait"}
    BY Zenon, <1>6 DEF ListLinks, RetainSpecs, FinishKernel, envVars, stateVars
  <2>2. Follows(table, snapshot) => Follows(table, snapshot)'  BY Zenon, <2>1 DEF Follows
  <2> QED  BY Zenon, <2>1, <2>2 DEF KernelOK
<1>7. ASSUME NEW l \in Links, NetworkdWrites(l)  PROVE KernelOK'
  BY Zenon, <1>1, <1>7 DEF NetworkdWrites, kernelVars, stateVars
<1>8. ASSUME NetworkdThread \/ NetworkdEnds  PROVE KernelOK'
  <2>1. UNCHANGED <<kernel, rtnl, kpc, snapshot>>
    BY Zenon, <1>8 DEF NetworkdThread, OpenWatch, BeginSync, LockNetworkd, SyncNetworkdTable,
       SyncNetworkdFails, StoreSpecs, FinishNetworkd, NetworkdEnds, ReadFile, envVars, kernelVars
  <2>2. ~SyncKernelTable \/ UNCHANGED table  BY Zenon, <2>1 DEF SyncKernelTable
  <2> QED  BY Zenon, <1>1, <2>1, <2>2, TableSteps
<1>9. ASSUME NEW u \in Setters, StartCall(u) \/ Setter(u)  PROVE KernelOK'
  <2>1. UNCHANGED <<kernel, rtnl, kpc, snapshot>>
    BY Zenon, <1>9 DEF StartCall, Setter, ensure_link_writable, SetTable, SetSpecs, FinishCall,
       envVars, kernelVars
  <2>2. ~SyncKernelTable \/ UNCHANGED table  BY Zenon, <2>1 DEF SyncKernelTable
  <2> QED  BY Zenon, <1>1, <2>1, <2>2, TableSteps
<1>10. ASSUME NEW q \in Queriers, Select(q) \/ Querier(q)  PROVE KernelOK'
  BY Zenon, <1>1, <1>10 DEF Select, Querier, Filter, Ask, envVars, kernelVars, stateVars
<1>11. ASSUME UNCHANGED vars  PROVE KernelOK'
  BY Zenon, <1>1, <1>11 DEF vars, envVars, kernelVars, stateVars
<1> QED
  BY Zenon, <1>2, <1>3, <1>4, <1>5, <1>6, <1>7, <1>8, <1>9, <1>10, <1>11, <1>12 DEF Next, RtnlThread,
     Quiescent

(***************************************************************************)
(* When the RTNL thread sleeps with nothing signalled, after having been   *)
(* woken at least once and with its last link_snapshot successful, the     *)
(* table has exactly the kernel's links, each in the kernel's state: no    *)
(* change of the kernel is lost between draining the socket, the snapshot  *)
(* and the table, and no setter or networkd synchronization, complete or   *)
(* not, brings a link back.                                                *)
(***************************************************************************)
THEOREM KernelStateFollowed == ASSUME LinkConstants PROVE Spec => []KernelUpToDate
<1>1. Init => Types /\ KernelOK  BY Zenon, InitTypes DEF Init, KernelOK
<1>2. Types /\ KernelOK /\ [Next]_vars => (Types /\ KernelOK)'  BY Zenon, NextTypes, NextKernel
<1>3. KernelOK => KernelUpToDate
  <2>1. SUFFICES ASSUME KernelOK, kpc = "wait", rtnl = "open", snapshot # NoSnapshot
                 PROVE  Follows(table, kernel)
    BY Zenon DEF KernelUpToDate, Follows
  <2>2. snapshot = kernel /\ Follows(table, snapshot)  BY Zenon, <2>1 DEF KernelOK
  <2> QED  BY Zenon, <2>2
<1> QED  BY <1>1, <1>2, <1>3, PTL DEF Spec

(***************************************************************************)
(* A query holds the routing table's lock from select to the filter, so    *)
(* the scopes it selected stay eligible.                                   *)
(***************************************************************************)
QueryOK == \A q \in Queriers : qpc[q] = "filter" => \A l \in scopes[q] : Eligible(l)

(* Every step keeps the selected scopes of a query under its lock          *)
(* eligible.                                                               *)
LEMMA NextQuery == ASSUME LinkConstants, Types, QueryOK, [Next]_vars PROVE QueryOK'
<1>0. qpc \in [Queriers -> {"idle", "filter", "ask"}] /\ scopes \in [Queriers -> SUBSET Links]
  BY Zenon DEF Types, QueryType
<1>1. ASSUME UNCHANGED <<qpc, scopes>>, UNCHANGED table \/ ~RoutingRead  PROVE QueryOK'
  BY Zenon, <1>1 DEF QueryOK, Eligible, RoutingRead
<1>2. ASSUME NEW q \in Queriers, Select(q)  PROVE QueryOK'
  <2>1. PICK chosen \in SUBSET {l \in Links : Eligible(l)} : scopes' = [scopes EXCEPT ![q] = chosen]
    BY Zenon, <1>2 DEF Select
  <2>2. UNCHANGED table /\ qpc' = [qpc EXCEPT ![q] = "filter"]  BY Zenon, <1>2 DEF Select, stateVars
  <2>3. \A l \in scopes'[q] : Eligible(l)  BY Zenon, <1>0, <1>2, <2>1
  <2>4. \A r \in Queriers \ {q} : qpc'[r] = qpc[r] /\ scopes'[r] = scopes[r]  BY Zenon, <1>0,
                                                                                 <2>1, <2>2
  <2> QED  BY ZenonT(30), <2>2, <2>3, <2>4 DEF QueryOK, Eligible
<1>3. ASSUME NEW q \in Queriers, Querier(q)  PROVE QueryOK'
  <2>1. PICK p, s : p \in {"idle", "ask"} /\ qpc' = [qpc EXCEPT ![q] = p] /\ scopes' = [scopes EXCEPT ![q] = s]
    BY Zenon, <1>3 DEF Querier, Filter, Ask
  <2>2. UNCHANGED table  BY Zenon, <1>3 DEF Querier, Filter, Ask, stateVars
  <2>3. qpc'[q] # "filter"  BY Zenon, <1>0, <1>3, <2>1
  <2>4. \A r \in Queriers \ {q} : qpc'[r] = qpc[r] /\ scopes'[r] = scopes[r]  BY Zenon, <1>0, <2>1
  <2> QED  BY Zenon, <2>2, <2>3, <2>4 DEF QueryOK, Eligible
<1>4. ASSUME ~\E q \in Queriers : Select(q) \/ Querier(q)  PROVE UNCHANGED <<qpc, scopes>>
  BY Zenon, <1>4
     DEF Next, RtnlThread, NetworkdThread, Setter, Quiescent, KernelChanges, NetworkdWrites, OpenRtnl, RtnlWakes,
         SyncKernelTable, ListLinks, RetainSpecs, FinishKernel, OpenWatch, BeginSync, ReadFile,
         LockNetworkd, SyncNetworkdTable, SyncNetworkdFails, StoreSpecs, FinishNetworkd, RtnlEnds,
         NetworkdEnds, StartCall, ensure_link_writable, SetTable, SetSpecs, FinishCall, vars, queryVars
<1>5. UNCHANGED table \/ ~RoutingRead  BY Zenon, TableSteps DEF SyncKernelTable
<1> QED  BY Zenon, <1>1, <1>2, <1>3, <1>4, <1>5

(***************************************************************************)
(* What a query goes out with is consistent: when its scopes have passed   *)
(* networkd_link_relevant, each is still one that select would choose and  *)
(* one networkd finds relevant, however many queries and writers there are.*)
(***************************************************************************)
THEOREM QueriesAskEligibleLinks == ASSUME LinkConstants PROVE Spec => ScopesAgree
<1>1. Init => Types /\ QueryOK  BY Zenon, InitTypes DEF Init, QueryOK
<1>2. Types /\ QueryOK /\ [Next]_vars => (Types /\ QueryOK)'  BY Zenon, NextTypes, NextQuery
<1>3. Types /\ QueryOK /\ [Next]_vars => [AsksEligible]_vars
  <2>1. SUFFICES ASSUME Types, QueryOK, Next, NEW q \in Queriers, qpc[q] = "filter", qpc'[q] = "ask"
                 PROVE  \A l \in scopes'[q] : Eligible(l) /\ (networkd[l].managed => networkd[l].relevant)
    BY Zenon DEF AsksEligible
  <2>0. qpc \in [Queriers -> {"idle", "filter", "ask"}] /\ scopes \in [Queriers -> SUBSET Links]
    BY Zenon, <2>1 DEF Types, QueryType
  <2>2. Filter(q)
    <3>1. ASSUME NEW r \in Queriers, Select(r) \/ Ask(r)  PROVE FALSE
      <4>1. PICK p \in {"idle", "filter"} : qpc' = [qpc EXCEPT ![r] = p]  BY Zenon,
                                                                             <3>1 DEF Select, Ask
      <4> QED  BY Zenon, <2>0, <2>1, <3>1, <4>1
    <3>2. ASSUME NEW r \in Queriers, r # q, Filter(r)  PROVE FALSE
      <4>1. qpc' = [qpc EXCEPT ![r] = "ask"]  BY Zenon, <3>2 DEF Filter
      <4> QED  BY Zenon, <2>0, <2>1, <3>2, <4>1
    <3>3. ASSUME UNCHANGED qpc  PROVE FALSE  BY Zenon, <2>1, <3>3
    <3> QED
      BY Zenon, <2>1, <3>1, <3>2, <3>3
         DEF Next, RtnlThread, NetworkdThread, Setter, Querier, Quiescent, KernelChanges, NetworkdWrites,
             OpenRtnl, RtnlWakes, SyncKernelTable, ListLinks, RetainSpecs, FinishKernel,
             OpenWatch, BeginSync,
             ReadFile, LockNetworkd, SyncNetworkdTable, SyncNetworkdFails, StoreSpecs, FinishNetworkd,
             RtnlEnds, NetworkdEnds, StartCall,
             ensure_link_writable, SetTable, SetSpecs, FinishCall, vars, queryVars
  <2>3. scopes'[q] = {l \in scopes[q] : networkd[l].managed => networkd[l].relevant}
    BY Zenon, <2>0, <2>1, <2>2 DEF Filter
  <2> QED  BY Zenon, <2>1, <2>3 DEF QueryOK
<1> QED  BY <1>1, <1>2, <1>3, PTL DEF Spec, ScopesAgree

(***************************************************************************)
(* Links that stay managed or stay unmanaged: networkd writes about each   *)
(* link files of one kind only (a garbled one may come at any time).       *)
(***************************************************************************)
OwnersFixed == \A l \in Links : \A s, t \in FileStates[l] \ {Garbled} : s.managed = t.managed
Owned == {l \in Links : \E s \in FileStates[l] \ {Garbled} : s.managed}

(***************************************************************************)
(* From its first synchronization on networkd_links says who owns a link,  *)
(* setters run only then, and a setter past ensure_link_writable is at a   *)
(* link that networkd does not own.                                        *)
(***************************************************************************)
OwnerOK ==
    /\ npc \in {"read", "lock", "table", "specs"} =>
          \A l \in Links \ unread : incoming[l].managed <=> l \in Owned
    /\ npc \in {"lock", "table", "specs"} => unread = {}
    /\ \A l \in Links : networkd[l].managed => l \in Owned
    /\ started \/ npc = "specs" => \A l \in Links : networkd[l].managed <=> l \in Owned
    /\ \A u \in Setters : pc[u] # "idle" => started
    /\ \A u \in Setters : pc[u] \in {"table", "specs", "finish"} => call[u].link \notin Owned

(* Every step keeps networkd_links and the setters in agreement with who   *)
(* owns a link.                                                            *)
LEMMA NextOwner == ASSUME LinkConstants, OwnersFixed, Types, OwnerOK, [Next]_vars PROVE OwnerOK'
<1>0. /\ incoming \in [Links -> NetworkdStates] /\ networkd \in [Links -> NetworkdStates]
      /\ pc \in [Setters -> {"idle", "check", "table", "specs", "finish"}]
      /\ call \in [Setters -> Calls \cup {NoCall}] /\ unread \subseteq Links
  BY Zenon DEF Types, StateType, NetworkdType, SetterType
<1>1. ASSUME UNCHANGED <<networkd, pc, call, started>>,
             \/ npc' = npc /\ unread' = unread /\ incoming' = incoming
             \/ npc' \in {"open", "wait", "exit", "ended"}
             \/ npc' = "read" /\ unread' = Links /\ incoming' = incoming
             \/ npc = "lock" /\ npc' = "table" /\ unread' = unread /\ incoming' = incoming
      PROVE  OwnerOK'
  BY Zenon, <1>1 DEF OwnerOK
<1>2. ASSUME OpenWatch \/ BeginSync \/ LockNetworkd \/ SyncNetworkdFails \/ NetworkdEnds  PROVE OwnerOK'
  BY Zenon, <1>1, <1>2
     DEF OpenWatch, BeginSync, LockNetworkd, SyncNetworkdFails, NetworkdEnds, GiveUp, stateVars, setterVars
<1>3. ASSUME NEW l \in Links, ReadFile(l)  PROVE OwnerOK'
  <2>1. UNCHANGED <<networkd, pc, call, started>>  BY Zenon, <1>3 DEF ReadFile, stateVars,
                                                      setterVars
  <2>2. CASE GiveUp  BY Zenon, <1>1, <2>1, <2>2 DEF GiveUp
  <2>3. CASE ~GiveUp
    <3>1. /\ npc = "read" /\ incoming' = [incoming EXCEPT ![l] = file[l]] /\ unread' = unread \ {l}
          /\ npc' = IF unread' = {} THEN "lock" ELSE "read"
          /\ file[l] # Garbled
      BY Zenon, <1>3, <2>3 DEF ReadFile
    <3>2. file[l] \in FileStates[l] \ {Garbled}  BY Zenon, <1>3, <3>1 DEF Types, EnvType
    <3>3. file[l].managed <=> l \in Owned
      <4>1. file[l].managed => l \in Owned  BY Zenon, <1>3, <3>2 DEF Owned
      <4>2. ASSUME l \in Owned  PROVE file[l].managed
        <5>1. PICK s \in FileStates[l] \ {Garbled} : s.managed  BY Zenon, <4>2 DEF Owned
        <5> QED  BY Zenon, <1>3, <3>2, <5>1 DEF OwnersFixed
      <4> QED  BY Zenon, <4>1, <4>2
    <3>4. incoming'[l] = file[l] /\ \A m \in Links \ {l} : incoming'[m] = incoming[m]
      BY Zenon, <1>0, <1>3, <3>1
    <3>5. \A m \in Links \ unread' : incoming'[m].managed <=> m \in Owned
      <4>1. \A m \in Links \ unread : incoming[m].managed <=> m \in Owned  BY Zenon,
                                                                              <3>1 DEF OwnerOK
      <4> QED  BY Zenon, <3>1, <3>3, <3>4, <4>1
    <3>6. npc' # "specs" /\ (npc' \in {"lock", "table", "specs"} => unread' = {})  BY Zenon, <3>1
    <3> QED  BY Zenon, <2>1, <3>5, <3>6 DEF OwnerOK
  <2> QED  BY Zenon, <2>2, <2>3
<1>4. ASSUME SyncNetworkdTable  PROVE OwnerOK'
  <2>1. /\ npc = "table" /\ npc' = "specs" /\ networkd' = incoming
        /\ UNCHANGED <<incoming, unread, started, pc, call>>
    BY Zenon, <1>4 DEF SyncNetworkdTable, setterVars
  <2>2. \A l \in Links : incoming[l].managed <=> l \in Owned  BY Zenon, <2>1 DEF OwnerOK
  <2> QED  BY Zenon, <2>1, <2>2 DEF OwnerOK
<1>5. ASSUME StoreSpecs  PROVE OwnerOK'
  BY Zenon, <1>1, <1>5 DEF StoreSpecs, setterVars
<1>6. ASSUME FinishNetworkd  PROVE OwnerOK'
  <2>1. /\ npc = "specs" /\ npc' = "open" /\ started' = TRUE
        /\ UNCHANGED <<networkd, unread, pc, call>>
    BY Zenon, <1>6 DEF FinishNetworkd, stateVars, setterVars
  <2> QED  BY Zenon, <2>1 DEF OwnerOK
<1>7. ASSUME NEW u \in Setters, StartCall(u) \/ Setter(u)  PROVE OwnerOK'
  <2>0. UNCHANGED <<networkd, networkdVars>>
    BY Zenon, <1>7 DEF StartCall, Setter, ensure_link_writable, SetTable, SetSpecs, FinishCall,
       stateVars
  <2>1. ASSUME \A v \in Setters : pc'[v] # "idle" => started,
               \A v \in Setters : pc'[v] \in {"table", "specs", "finish"} => call'[v].link \notin Owned
        PROVE  OwnerOK'
    BY Zenon, <2>0, <2>1 DEF OwnerOK, networkdVars
  <2>2. ASSUME NEW p, NEW c, pc' = [pc EXCEPT ![u] = p], call' = [call EXCEPT ![u] = c],
               p # "idle" => started, p \in {"table", "specs", "finish"} => c.link \notin Owned
        PROVE  OwnerOK'
    <3>1. /\ pc'[u] = p /\ call'[u] = c
          /\ \A v \in Setters \ {u} : pc'[v] = pc[v] /\ call'[v] = call[v]
      BY Zenon, <1>0, <1>7, <2>2
    <3> QED  BY ZenonT(30), <2>1, <2>2, <3>1 DEF OwnerOK
  <2>3. CASE StartCall(u)
    <3>1. PICK c : call' = [call EXCEPT ![u] = c]  BY Zenon, <2>3 DEF StartCall
    <3>2. "check" \notin {"table", "specs", "finish"}  BY Zenon
    <3> QED  BY Zenon, <2>2, <2>3, <3>1, <3>2 DEF StartCall
  <2>4. CASE EndCall(u)
    <3>1. "idle" \notin {"table", "specs", "finish"}  BY Zenon
    <3> QED  BY Zenon, <2>2, <2>4, <3>1 DEF EndCall
  <2>5. ASSUME call' = call, NEW p \in {"table", "specs", "finish"}, pc' = [pc EXCEPT ![u] = p],
               pc[u] # "idle", call[u].link \notin Owned
        PROVE  OwnerOK'
    <3>1. call' = [call EXCEPT ![u] = call[u]]  BY Zenon, <1>0, <1>7, <2>5
    <3>2. started  BY Zenon, <1>7, <2>5 DEF OwnerOK
    <3> QED  BY Zenon, <2>2, <2>5, <3>1, <3>2
  <2>6. CASE ensure_link_writable(u)
    <3>1. CASE networkd[call[u].link].managed  BY Zenon, <2>4, <2>6, <3>1 DEF ensure_link_writable
    <3>2. CASE ~networkd[call[u].link].managed
      <4>1. pc[u] = "check" /\ pc' = [pc EXCEPT ![u] = "table"] /\ call' = call
        BY Zenon, <2>6, <3>2 DEF ensure_link_writable
      <4>2. call[u].link \notin Owned
        <5>1. started  BY Zenon, <1>7, <4>1 DEF OwnerOK
        <5>2. \A l \in Links : networkd[l].managed <=> l \in Owned  BY Zenon, <5>1 DEF OwnerOK
        <5> QED  BY Zenon, <3>2, <5>2 DEF Owned
      <4> QED  BY Zenon, <2>5, <4>1, <4>2
    <3> QED  BY Zenon, <3>1, <3>2
  <2>7. CASE SetTable(u)
    <3>1. pc[u] = "table" /\ call[u].link \notin Owned  BY Zenon, <1>7, <2>7 DEF SetTable, OwnerOK
    <3>2. CASE ~table[call[u].link].live  BY Zenon, <2>4, <2>7, <3>2 DEF SetTable
    <3>3. CASE table[call[u].link].live
      <4>1. PICK p \in {"specs", "finish"} : pc' = [pc EXCEPT ![u] = p]  BY Zenon, <2>7,
                                                                            <3>3 DEF SetTable
      <4>2. call' = call  BY Zenon, <2>7, <3>3 DEF SetTable
      <4> QED  BY Zenon, <2>5, <3>1, <4>1, <4>2
    <3> QED  BY Zenon, <3>2, <3>3
  <2>8. CASE SetSpecs(u)
    <3>1. pc[u] = "specs" /\ call[u].link \notin Owned  BY Zenon, <1>7, <2>8 DEF SetSpecs, OwnerOK
    <3> QED  BY Zenon, <2>5, <2>8, <3>1 DEF SetSpecs
  <2>9. CASE FinishCall(u)  BY Zenon, <2>4, <2>9 DEF FinishCall
  <2> QED  BY Zenon, <1>7, <2>3, <2>6, <2>7, <2>8, <2>9 DEF Setter
<1>8. ASSUME UNCHANGED <<networkd, networkdVars, setterVars>>  PROVE OwnerOK'
  BY Zenon, <1>1, <1>8 DEF networkdVars, setterVars
<1>9. ASSUME \/ \E l \in Links : KernelChanges(l) \/ NetworkdWrites(l)
             \/ OpenRtnl \/ RtnlThread \/ RtnlEnds
      PROVE  OwnerOK'
  BY Zenon, <1>8, <1>9 DEF KernelChanges, NetworkdWrites, OpenRtnl, RtnlThread, RtnlWakes,
     SyncKernelTable, ListLinks, RetainSpecs, FinishKernel, RtnlEnds, stateVars
<1>10. ASSUME (\E q \in Queriers : Select(q) \/ Querier(q)) \/ UNCHANGED vars  PROVE OwnerOK'
  BY Zenon, <1>8, <1>10 DEF Select, Querier, Filter, Ask, vars, stateVars
<1> QED
  BY Zenon, <1>2, <1>3, <1>4, <1>5, <1>6, <1>7, <1>9, <1>10 DEF Next, NetworkdThread, Quiescent

(* Before the first synchronization no link is managed and no setter runs. *)
LEMMA InitOwner == ASSUME Init PROVE OwnerOK
BY DEF Init, OwnerOK, Nobody, Unmanaged

(***************************************************************************)
(* "... and blocks mutation": while networkd does not change which links   *)
(* it manages, no D-Bus setter changes the settings or the server specs of *)
(* a link that networkd manages, although ensure_link_writable gives the   *)
(* networkd lock back before the setter takes the routing table's.         *)
(***************************************************************************)
THEOREM ManagedLinksKept == ASSUME LinkConstants, OwnersFixed PROVE Spec => ManagedBlocksMutation
<1> DEFINE Blocked == \A u \in Setters : (SetTable(u) \/ SetSpecs(u)) =>
              \A l \in Links : networkd[l].managed => table'[l] = table[l] /\ specs'[l] = specs[l]
<1>1. Init => Types /\ OwnerOK  BY Zenon, InitTypes, InitOwner
<1>2. Types /\ OwnerOK /\ [Next]_vars => (Types /\ OwnerOK)'  BY Zenon, NextTypes, NextOwner
<1>3. Types /\ OwnerOK => Blocked
  <2>1. SUFFICES ASSUME Types, OwnerOK, NEW u \in Setters, SetTable(u) \/ SetSpecs(u),
                        NEW l \in Links, networkd[l].managed
                 PROVE  table'[l] = table[l] /\ specs'[l] = specs[l]
    BY Zenon
  <2>2. l # call[u].link  BY Zenon, <2>1 DEF OwnerOK, SetTable, SetSpecs
  <2>3. table \in [Links -> LinkStates] /\ specs \in [Links -> Specs]  BY Zenon, <2>1 DEF Types,
                                                                          StateType
  <2>4. CASE SetTable(u)  BY Zenon, <2>1, <2>2, <2>3, <2>4 DEF SetTable
  <2>5. CASE SetSpecs(u)  BY Zenon, <2>1, <2>2, <2>3, <2>5 DEF SetSpecs
  <2> QED  BY Zenon, <2>1, <2>4, <2>5
<1>4. Types /\ OwnerOK /\ [Next]_vars => [Blocked]_vars  BY Zenon, <1>3
<1> HIDE DEF Blocked
<1>5. Spec => [][Blocked]_vars  BY <1>1, <1>2, <1>4, PTL DEF Spec
<1> QED  BY <1>5 DEF Blocked, ManagedBlocksMutation

(***************************************************************************)
(* A managed link of the table has what networkd gave it, if links do not  *)
(* go (one that comes back is a new link, with no settings) and no setter  *)
(* is between ensure_link_writable and the table at a managed link.        *)
(***************************************************************************)
LinksStay == "gone" \notin KernelStates
NoSetters == Setters = {}
SettersElsewhere == \A u \in Setters : pc[u] = "table" => ~networkd[call[u].link].managed

ConfiguredOK == ManagedLinksConfigured /\ \A l \in Links : table[l].live

(* At the start every link is in the table and none is managed.            *)
LEMMA InitConfigured == ASSUME LinkConstants, LinksStay, Init PROVE ConfiguredOK
<1>1. PICK tab \in [Links -> LinkStates] : tab = [l \in Links |-> NoLink]
  <2>1. [l \in Links |-> NoLink] \in [Links -> LinkStates]  BY Zenon, RecordFacts
  <2> QED  BY Zenon, <2>1
<1>2. Follows(table, kernel)  BY Zenon, <1>1, KernelSyncedFacts DEF Init
<1>3. \A l \in Links : table[l].live  BY Zenon, <1>2 DEF Follows, LinksStay, Init
<1>4. \A l \in Links : ~networkd[l].managed  BY Zenon DEF Init, Nobody, Unmanaged
<1> QED  BY Zenon, <1>3, <1>4 DEF ConfiguredOK, ManagedLinksConfigured

(* Every step keeps the managed links configured: the RTNL thread keeps    *)
(* settings, sync_networkd_links writes the table and networkd_links in    *)
(* one step, setters are elsewhere.                                        *)
LEMMA NextConfigured ==
    ASSUME LinkConstants, LinksStay, Types, SettersElsewhere, ConfiguredOK, [Next]_vars
    PROVE  ConfiguredOK'
<1>0. table \in [Links -> LinkStates] /\ \A l \in Links : table[l].live /\ table[l] \in LinkStates
  BY Zenon DEF Types, StateType, ConfiguredOK
<1>1. ASSUME UNCHANGED networkd,
             \A l \in Links : table'[l].live,
             abandoned \subseteq abandoned',
             \A l \in Links \ abandoned' : networkd[l].managed =>
                 table'[l].dns = table[l].dns /\ table'[l].option = table[l].option
      PROVE  ConfiguredOK'
  BY Zenon, <1>1 DEF ConfiguredOK, ManagedLinksConfigured
<1>2. ASSUME SyncKernelTable  PROVE ConfiguredOK'
  <2>1. table' = KernelSynced(table, snapshot) /\ networkd' = networkd  BY Zenon,
                                                                           <1>2 DEF SyncKernelTable
  <2>2. \A l \in Links : snapshot[l] # "gone"
    BY Zenon, <1>2 DEF SyncKernelTable, Types, KernelType, LinksStay
  <2>3. ASSUME NEW l \in Links
        PROVE  table'[l].live /\ table'[l].dns = table[l].dns /\ table'[l].option = table[l].option
    <3>1. table'[l] = [table[l] EXCEPT !.up = (snapshot[l] = "up")]
      BY Zenon, <1>0, <2>1, <2>2, <2>3 DEF KernelSynced
    <3>2. PICK x \in BOOLEAN : x <=> snapshot[l] = "up"  BY Zenon
    <3>3. PICK t \in LinkStates : t = table[l] /\ t.live  BY Zenon, <1>0, <2>3
    <3>4. table'[l] = [t EXCEPT !.up = x]  BY <3>1, <3>2, <3>3
    <3>5. /\ [t EXCEPT !.up = x].live = t.live
          /\ [t EXCEPT !.up = x].dns = t.dns /\ [t EXCEPT !.up = x].option = t.option
      BY ZenonT(30), <3>2, <3>3, UpUpdates
    <3> QED  BY Zenon, <3>3, <3>4, <3>5
  <2>4. abandoned' = abandoned
    BY Zenon, <1>2, <2>3 DEF SyncKernelTable, Types, HistoryType
  <2> QED  BY Zenon, <1>1, <2>1, <2>3, <2>4
<1>3. ASSUME SyncNetworkdTable  PROVE ConfiguredOK'
  <2>1. networkd' = incoming /\ \A l \in Links : table'[l] = Synced(l)
    BY Zenon, <1>3 DEF SyncNetworkdTable
  <2>2. ASSUME NEW l \in Links, incoming[l].managed
        PROVE  Synced(l).dns = incoming[l].dns /\ Synced(l).option = incoming[l].option
    <3>1. PICK t, d, o : t \in LinkStates /\ t = table[l] /\ d = incoming[l].dns /\ o = incoming[l].option
      BY Zenon, <1>0, <2>2
    <3>2. Synced(l) = [t EXCEPT !.dns = d, !.option = o]
      BY Zenon, <1>0, <2>2, <3>1 DEF Synced, NoLongerManaged
    <3>3. [t EXCEPT !.dns = d, !.option = o].dns = d /\ [t EXCEPT !.dns = d, !.option = o].option = o
      BY <3>1 DEF LinkStates
    <3> QED  BY Zenon, <3>1, <3>2, <3>3
  <2>3. \A l \in Links : table'[l].live  BY Zenon, <1>0, <2>1, SyncedFacts
  <2> QED  BY Zenon, <2>1, <2>2, <2>3 DEF ConfiguredOK, ManagedLinksConfigured
<1>4. ASSUME NEW u \in Setters, SetTable(u)  PROVE ConfiguredOK'
  <2>1. ~networkd[call[u].link].managed /\ UNCHANGED <<networkd, abandoned>>
    BY Zenon, <1>4 DEF SetTable, SettersElsewhere
  <2>2. \A l \in Links \ {call[u].link} : table'[l] = table[l]  BY Zenon, <1>0, <1>4 DEF SetTable
  <2>3. UNCHANGED table \/ SameLinks
    <3>1. UNCHANGED kpc  BY Zenon, <1>4 DEF SetTable, kernelVars
    <3>2. ~SyncKernelTable  BY Zenon, <3>1 DEF SyncKernelTable
    <3> QED  BY Zenon, <3>2, TableSteps
  <2>4. \A l \in Links : table'[l].live  BY Zenon, <1>0, <2>3 DEF SameLinks
  <2> QED  BY Zenon, <1>1, <2>1, <2>2, <2>4
<1>5. ASSUME UNCHANGED <<table, networkd, abandoned>>  PROVE ConfiguredOK'  BY Zenon, <1>0, <1>1, <1>5
<1>6. ASSUME SyncNetworkdFails  PROVE ConfiguredOK'
  <2>1. /\ UNCHANGED networkd /\ abandoned \subseteq abandoned'
        /\ \A l \in Links \ abandoned' : table'[l] = table[l]
    BY Zenon, <1>6 DEF SyncNetworkdFails
  <2>2. \A l \in Links : table'[l].live  BY Zenon, <1>0, <1>6, FailedFacts
  <2> QED  BY Zenon, <1>1, <2>1, <2>2
<1> QED
  BY ZenonT(30), <1>2, <1>3, <1>4, <1>5, <1>6
     DEF Next, RtnlThread, NetworkdThread, Setter, Querier, Quiescent, KernelChanges, NetworkdWrites,
         OpenRtnl, RtnlWakes, ListLinks, RetainSpecs, FinishKernel, OpenWatch, BeginSync,
         ReadFile, LockNetworkd, StoreSpecs, FinishNetworkd, RtnlEnds, NetworkdEnds, StartCall,
         ensure_link_writable, SetSpecs, FinishCall, Select, Filter, Ask, vars, stateVars, history

(***************************************************************************)
(* "managed networkd state populates effective link": at every moment a    *)
(* managed link of the table has the servers and the settings networkd     *)
(* gave it, through kernel changes, new files, queries and                 *)
(* synchronizations that fail, but for the links that an early return has  *)
(* left half done.  Either no setter runs, or networkd does not change     *)
(* which links it manages; the links do not go.                            *)
(***************************************************************************)
THEOREM ManagedLinksPopulated ==
    ASSUME LinkConstants, LinksStay, NoSetters \/ OwnersFixed
    PROVE  Spec => []ManagedLinksConfigured
<1> DEFINE Elsewhere == OwnersFixed => OwnerOK
<1>1. Init => Types /\ ConfiguredOK /\ Elsewhere  BY Zenon, InitTypes, InitConfigured, InitOwner
<1>2. Types /\ Elsewhere => SettersElsewhere
  <2>1. SUFFICES ASSUME Types, Elsewhere, NEW u \in Setters, pc[u] = "table"
                 PROVE  ~networkd[call[u].link].managed
    BY Zenon DEF SettersElsewhere
  <2>2. OwnerOK  BY Zenon, <2>1 DEF NoSetters
  <2>3. call[u].link \in Links  BY Zenon, <2>1, CallLinks DEF Types, SetterType
  <2> QED  BY Zenon, <2>1, <2>2, <2>3 DEF OwnerOK
<1>3. Types /\ ConfiguredOK /\ Elsewhere /\ [Next]_vars => (Types /\ ConfiguredOK)'
  BY Zenon, <1>2, NextTypes, NextConfigured
<1>4. Types /\ Elsewhere /\ [Next]_vars => Elsewhere'
  <2>1. CASE OwnersFixed  BY Zenon, <2>1, NextOwner
  <2>2. CASE ~OwnersFixed  BY Zenon, <2>2
  <2> QED  BY Zenon, <2>1, <2>2
<1>5. ConfiguredOK => ManagedLinksConfigured  BY Zenon DEF ConfiguredOK
<1> HIDE DEF Elsewhere
<1> QED  BY <1>1, <1>3, <1>4, <1>5, PTL DEF Spec

(***************************************************************************)
(* With no setter, a link that is not managed and was not left half done,  *)
(* or is not in the table, has no settings; the server specs of a link     *)
(* that is not managed are gone or about to be removed.                    *)
(***************************************************************************)
Plain(t) == t.dns = NoDns /\ t.option = DefaultOption
RevertedOK ==
    /\ \A l \in Links : ~table[l].live \/ (~networkd[l].managed /\ l \notin abandoned) => Plain(table[l])
    /\ npc # "specs" => todo = {}
    /\ \A l \in Links : ~networkd[l].managed =>
          /\ specs[l] = NoSpec \/ \E i \in todo : i.link = l
          /\ \A i \in todo : i.link = l => i.spec = NoSpec

(* Every step keeps the links that are not managed without settings;       *)
(* sync_networkd_links reverts a link and hands its specs on to be         *)
(* removed.                                                                *)
LEMMA NextReverted ==
    ASSUME LinkConstants, NoSetters, Types, RevertedOK, [Next]_vars
    PROVE  RevertedOK'
<1>0. /\ table \in [Links -> LinkStates] /\ specs \in [Links -> Specs]
      /\ todo \subseteq [link : Links, spec : Specs]
  BY Zenon DEF Types, StateType, NetworkdType
<1>1. ASSUME SyncKernelTable  PROVE RevertedOK'
  <2>1. table' = KernelSynced(table, snapshot) /\ UNCHANGED <<networkd, specs, npc, todo>>
    BY Zenon, <1>1 DEF SyncKernelTable, networkdVars
  <2>2. ASSUME NEW l \in Links, ~table'[l].live \/ (~networkd[l].managed /\ l \notin abandoned')
        PROVE  Plain(table'[l])
    <3>0. table'[l].live /\ l \notin abandoned' => l \notin abandoned  BY Zenon, <1>1 DEF SyncKernelTable
    <3>1. PICK x \in BOOLEAN : x <=> snapshot[l] = "up"  BY Zenon
    <3>2. PICK t \in LinkStates : t = table[l]  BY Zenon, <1>0, <2>2
    <3>3. \/ table'[l] = NoLink
          \/ t.live /\ table'[l] = [t EXCEPT !.up = x]
          \/ table'[l] = NewLink(x)
      BY <2>1, <2>2, <3>1, <3>2 DEF KernelSynced
    <3>4. /\ [t EXCEPT !.up = x].live = t.live
          /\ [t EXCEPT !.up = x].dns = t.dns /\ [t EXCEPT !.up = x].option = t.option
      BY ZenonT(30), <3>1, <3>2, UpUpdates
    <3>5. Plain(NoLink) /\ Plain(NewLink(x))  BY DEF Plain, NoLink, NewLink
    <3>6. CASE t.live /\ table'[l] = [t EXCEPT !.up = x]
      <4>1. Plain(t)  BY Zenon, <2>2, <3>0, <3>2, <3>4, <3>6 DEF RevertedOK
      <4> QED  BY Zenon, <3>4, <3>6, <4>1 DEF Plain
    <3> QED  BY Zenon, <3>3, <3>5, <3>6
  <2> QED  BY Zenon, <2>1, <2>2 DEF RevertedOK
<1>2. ASSUME RetainSpecs  PROVE RevertedOK'
  <2>1. UNCHANGED <<table, networkd, npc, todo, abandoned>>  BY Zenon, <1>2 DEF RetainSpecs, networkdVars
  <2>2. \A l \in Links : specs'[l] = specs[l] \/ specs'[l] = NoSpec  BY Zenon, <1>2 DEF RetainSpecs
  <2> QED  BY Zenon, <2>1, <2>2 DEF RevertedOK
<1>3. ASSUME SyncNetworkdTable  PROVE RevertedOK'
  <2>1. /\ npc = "table" /\ npc' = "specs" /\ networkd' = incoming /\ specs' = specs
        /\ \A l \in Links : table'[l] = Synced(l)
        /\ todo' = {Identity(l) : l \in {m \in Links : NoLongerManaged(m) \/ incoming[m].managed}}
    BY Zenon, <1>3 DEF SyncNetworkdTable
  <2>2. todo = {}  BY Zenon, <2>1 DEF RevertedOK
  <2>7. abandoned' = {l \in abandoned : ~NoLongerManaged(l) /\ ~incoming[l].managed}
    BY Zenon, <1>3 DEF SyncNetworkdTable
  <2>3. ASSUME NEW l \in Links, ~Synced(l).live \/ (~incoming[l].managed /\ l \notin abandoned')
        PROVE  Plain(Synced(l))
    <3>1. CASE ~table[l].live
      <4>1. Synced(l) = table[l]  BY Zenon, <3>1 DEF Synced
      <4> QED  BY Zenon, <2>3, <3>1, <4>1 DEF RevertedOK
    <3>2. CASE table[l].live
      <4>1. ~incoming[l].managed /\ l \notin abandoned'  BY Zenon, <2>3, <3>2, SyncedFacts
      <4>2. CASE networkd[l].managed
        <5>1. Synced(l) = NewLink(table[l].up)  BY Zenon, <3>2, <4>1, <4>2 DEF Synced,
                                                   NoLongerManaged
        <5> QED  BY <5>1 DEF Plain, NewLink
      <4>3. CASE ~networkd[l].managed
        <5>1. Synced(l) = table[l]  BY Zenon, <4>1, <4>3 DEF Synced, NoLongerManaged
        <5>2. l \notin abandoned  BY Zenon, <2>7, <4>1, <4>3 DEF NoLongerManaged
        <5> QED  BY Zenon, <2>3, <4>3, <5>1, <5>2 DEF RevertedOK
      <4> QED  BY Zenon, <4>2, <4>3
    <3> QED  BY Zenon, <3>1, <3>2
  <2>4. ASSUME NEW l \in Links, ~incoming[l].managed
        PROVE  /\ specs[l] = NoSpec \/ \E i \in todo' : i.link = l
               /\ \A i \in todo' : i.link = l => i.spec = NoSpec
    <3>1. ASSUME NEW i \in todo', i.link = l  PROVE i.spec = NoSpec
      <4>1. PICK m \in Links : i = Identity(m)  BY Zenon, <2>1, <3>1
      <4>2. m = l  BY Zenon, <3>1, <4>1, IdentityFacts
      <4>3. Identity(l).spec = NoSpec  BY Zenon, <2>4, IdentityFacts
      <4> QED  BY Zenon, <4>1, <4>2, <4>3
    <3>2. CASE networkd[l].managed
      <4>1. Identity(l) \in todo'  BY Zenon, <2>1, <2>4, <3>2 DEF NoLongerManaged
      <4>2. Identity(l).link = l  BY Zenon, <2>4, IdentityFacts
      <4> QED  BY Zenon, <3>1, <4>1, <4>2
    <3>3. CASE ~networkd[l].managed
      <4>1. specs[l] = NoSpec  BY Zenon, <2>2, <2>4, <3>3 DEF RevertedOK
      <4> QED  BY Zenon, <3>1, <4>1
    <3> QED  BY Zenon, <3>2, <3>3
  <2>5. \A l \in Links : ~table'[l].live \/ (~networkd'[l].managed /\ l \notin abandoned') => Plain(table'[l])
    BY Zenon, <2>1, <2>3
  <2>6. \A l \in Links : ~networkd'[l].managed =>
           /\ specs'[l] = NoSpec \/ \E i \in todo' : i.link = l
           /\ \A i \in todo' : i.link = l => i.spec = NoSpec
    BY Zenon, <2>1, <2>4
  <2> QED  BY Zenon, <2>1, <2>5, <2>6 DEF RevertedOK
<1>4. ASSUME StoreSpecs  PROVE RevertedOK'
  <2>1. PICK i \in todo : specs' = [specs EXCEPT ![i.link] = i.spec] /\ todo' = todo \ {i}
    BY Zenon, <1>4 DEF StoreSpecs
  <2>2. UNCHANGED <<table, networkd, npc, abandoned>> /\ npc = "specs"  BY Zenon, <1>4 DEF StoreSpecs
  <2>3. \A l \in Links : specs'[l] = IF l = i.link THEN i.spec ELSE specs[l]  BY Zenon, <1>0, <2>1
  <2>4. ASSUME NEW l \in Links, ~networkd[l].managed
        PROVE  /\ specs'[l] = NoSpec \/ \E j \in todo' : j.link = l
               /\ \A j \in todo' : j.link = l => j.spec = NoSpec
    <3>1. CASE l = i.link  BY Zenon, <2>1, <2>3, <2>4, <3>1 DEF RevertedOK
    <3>2. CASE l # i.link  BY ZenonT(30), <2>1, <2>3, <2>4, <3>2 DEF RevertedOK
    <3> QED  BY Zenon, <3>1, <3>2
  <2> QED  BY Zenon, <2>2, <2>4 DEF RevertedOK
<1>8. ASSUME SyncNetworkdFails  PROVE RevertedOK'
  <2>1. /\ UNCHANGED <<networkd, specs, todo>> /\ npc = "table"
        /\ abandoned' = abandoned \cup {m \in Links : table'[m] # table[m]}
    BY Zenon, <1>8 DEF SyncNetworkdFails
  <2>2. \A m \in Links : /\ table'[m].live = table[m].live
                         /\ ~table[m].live => table'[m] = table[m]
    BY Zenon, <1>8, FailedFacts
  <2>3. ASSUME NEW l \in Links, ~table'[l].live \/ (~networkd[l].managed /\ l \notin abandoned')
        PROVE  Plain(table'[l])
    <3>1. table'[l] = table[l] /\ (l \in abandoned => l \in abandoned')  BY Zenon, <2>1, <2>2, <2>3
    <3> QED  BY Zenon, <2>3, <3>1 DEF RevertedOK
  <2>4. todo = {}  BY Zenon, <2>1 DEF RevertedOK
  <2> QED  BY Zenon, <2>1, <2>3, <2>4 DEF RevertedOK
<1>5. ASSUME UNCHANGED <<table, networkd, specs, todo, abandoned>>, npc' = npc \/ todo = {}  PROVE RevertedOK'
  BY Zenon, <1>5 DEF RevertedOK
<1>6. ASSUME \/ OpenWatch \/ BeginSync \/ \E l \in Links : ReadFile(l)
             \/ LockNetworkd \/ FinishNetworkd \/ NetworkdEnds
      PROVE  RevertedOK'
  <2>1. todo = {} /\ UNCHANGED <<table, networkd, specs, todo, abandoned>>
    BY Zenon, <1>6 DEF RevertedOK, OpenWatch, BeginSync, ReadFile, LockNetworkd, FinishNetworkd,
       NetworkdEnds, stateVars, history
  <2> QED  BY Zenon, <1>5, <2>1
<1>7. ASSUME \/ \E l \in Links : KernelChanges(l) \/ NetworkdWrites(l)
             \/ OpenRtnl \/ RtnlWakes \/ ListLinks \/ FinishKernel \/ RtnlEnds
             \/ \E q \in Queriers : Select(q) \/ Querier(q)
             \/ UNCHANGED vars
      PROVE  RevertedOK'
  BY Zenon, <1>5, <1>7 DEF KernelChanges, NetworkdWrites, OpenRtnl, RtnlWakes, ListLinks,
     FinishKernel, RtnlEnds, Select, Querier, Filter, Ask, vars, stateVars, networkdVars, history
<1> QED
  BY Zenon, <1>1, <1>2, <1>3, <1>4, <1>6, <1>7, <1>8 DEF Next, RtnlThread, NetworkdThread, Quiescent,
     NoSetters

(* The links of the first netlink::synchronize have no settings.           *)
LEMMA InitReverted == ASSUME LinkConstants, Init PROVE RevertedOK
<1>1. ASSUME NEW l \in Links  PROVE Plain(table[l])
  <2>1. PICK x \in BOOLEAN : x <=> kernel[l] = "up"  BY Zenon
  <2>2. NoLink.live = FALSE  BY DEF NoLink
  <2>3. table[l] = NoLink \/ table[l] = NewLink(x)  BY <1>1, <2>1, <2>2 DEF Init, KernelSynced
  <2> QED  BY <2>3 DEF Plain, NoLink, NewLink
<1> QED  BY Zenon, <1>1 DEF RevertedOK, Init

(***************************************************************************)
(* A link that networkd stops managing loses all that networkd had set, in *)
(* the table and in the server specs, also when it leaves the kernel and   *)
(* comes back meanwhile.  Only what a synchronization wrote before it      *)
(* returned early may stay, and no server specs.  (No setter runs.)        *)
(***************************************************************************)
THEOREM UnmanagedLinksLoseSettings ==
    ASSUME LinkConstants, NoSetters
    PROVE  Spec => []UnmanagedLinksReverted
<1>1. Init => Types /\ RevertedOK  BY Zenon, InitTypes, InitReverted
<1>2. Types /\ RevertedOK /\ [Next]_vars => (Types /\ RevertedOK)'  BY Zenon, NextTypes,
                                                                       NextReverted
<1>3. RevertedOK => UnmanagedLinksReverted  BY Zenon DEF RevertedOK, UnmanagedLinksReverted, Plain
<1> QED  BY <1>1, <1>2, <1>3, PTL DEF Spec

(***************************************************************************)
(* D-Bus calls made one after the other: one setter.                       *)
(***************************************************************************)
OneSetter == \A u, v \in Setters : u = v

(***************************************************************************)
(* The two halves of a link's servers.  A link with servers has their      *)
(* specs, or the thread that gave it the servers is about to store them:   *)
(* the networkd thread for an owned link, the setter for another.  The     *)
(* exception are owned links that a failed synchronization left half done. *)
(* And live_ifindices, when the RTNL thread drops the specs of the links   *)
(* not in it, has every link of the table.                                 *)
(***************************************************************************)
HasServers(l) == table[l].live /\ table[l].dns # NoDns
Described(l) == specs[l].dns = table[l].dns
OwnedOK(l) ==
    HasServers(l) /\ l \notin abandoned =>
        /\ Described(l) \/ \E i \in todo : i.link = l
        /\ \A i \in todo : i.link = l => i.spec.dns = table[l].dns
Storing(l, d) ==
    \E u \in Setters : pc[u] = "specs" /\ call[u].link = l /\ call[u].op = "dns" /\ call[u].dns = d
NoneStoring(l) == \A u \in Setters : pc[u] = "specs" => call[u].link # l
FreeOK(l) == HasServers(l) => Storing(l, table[l].dns) \/ (Described(l) /\ NoneStoring(l))
ServersOK ==
    /\ npc # "specs" => todo = {}
    /\ \A i \in todo : i.link \in Owned
    /\ kpc = "specs" => \A l \in Links : table[l].live => l \in live
    /\ \A l \in Owned : OwnedOK(l)
    /\ \A l \in Links \ Owned : FreeOK(l)

(* A step that leaves the servers of a link and the setters alone and does *)
(* not spoil its specs.                                                    *)
LEMMA FreeKept ==
    ASSUME NEW l, FreeOK(l), UNCHANGED <<pc, call>>, HasServers(l)' => HasServers(l),
           table'[l].dns = table[l].dns, HasServers(l) => (Described(l) => Described(l)')
    PROVE  FreeOK(l)'
<1>1. SUFFICES ASSUME HasServers(l)'  PROVE (Storing(l, table[l].dns) \/ (Described(l) /\ NoneStoring(l)))'
  BY Zenon DEF FreeOK
<1>2. PICK d : d = table[l].dns  OBVIOUS
<1>3. Storing(l, d) \/ (Described(l) /\ NoneStoring(l))  BY Zenon, <1>1, <1>2 DEF FreeOK
<1>4. Storing(l, d) => Storing(l, d)'  BY Zenon DEF Storing
<1>5. NoneStoring(l) => NoneStoring(l)'  BY Zenon DEF NoneStoring
<1>6. table'[l].dns = d  BY Zenon, <1>2
<1> QED  BY Zenon, <1>1, <1>3, <1>4, <1>5, <1>6

(* A step that gives no link servers and leaves the specs, the setters and *)
(* what is to be stored alone.                                             *)
LEMMA ServersKept ==
    ASSUME ServersOK, UNCHANGED <<specs, todo, pc, call>>,
           \A l \in Links : HasServers(l)' => HasServers(l) /\ table'[l].dns = table[l].dns,
           \A l \in Links : HasServers(l)' /\ l \notin abandoned' => l \notin abandoned,
           npc' # "specs" => todo = {},
           kpc' = "specs" => \A l \in Links : table'[l].live => l \in live'
    PROVE  ServersOK'
<1>1. Owned \subseteq Links  BY Zenon DEF Owned
<1>2. \A l \in Owned : OwnedOK(l)'  BY Zenon, <1>1 DEF ServersOK, OwnedOK, Described
<1>3. ASSUME NEW l \in Links \ Owned  PROVE FreeOK(l)'
  <2>1. CASE ~HasServers(l)'  BY Zenon, <2>1 DEF FreeOK
  <2>2. CASE HasServers(l)'
    <3>1. HasServers(l) /\ table'[l].dns = table[l].dns  BY Zenon, <1>3, <2>2
    <3>2. Described(l) => Described(l)'  BY Zenon, <3>1 DEF Described
    <3> QED  BY Zenon, <1>3, <3>1, <3>2, FreeKept DEF ServersOK
  <2> QED  BY Zenon, <2>1, <2>2
<1> QED  BY Zenon, <1>2, <1>3 DEF ServersOK

(* The RTNL thread gives no link servers and drops the specs only of links *)
(* that are not in the table.                                              *)
LEMMA KernelServers ==
    ASSUME LinkConstants, Types, ServersOK, RtnlThread
    PROVE  ServersOK'
<1>1. ASSUME SyncKernelTable  PROVE ServersOK'
  <2>1. /\ table' = KernelSynced(table, snapshot) /\ UNCHANGED <<specs, todo, npc, pc, call>> /\ kpc' = "list"
    BY Zenon, <1>1 DEF SyncKernelTable, networkdVars, setterVars
  <2>2. ASSUME NEW l \in Links, table'[l].live /\ table'[l].dns # NoDns
        PROVE  HasServers(l) /\ table'[l].dns = table[l].dns
    <3>1. PICK x \in BOOLEAN : x <=> snapshot[l] = "up"  BY Zenon
    <3>2. PICK t \in LinkStates : t = table[l]  BY Zenon, <2>2 DEF Types, StateType
    <3>3. \/ table'[l] = NoLink
          \/ t.live /\ table'[l] = [t EXCEPT !.up = x]
          \/ table'[l] = NewLink(x)
      BY <2>1, <2>2, <3>1, <3>2 DEF KernelSynced
    <3>4. [t EXCEPT !.up = x].dns = t.dns  BY Zenon, <3>1, <3>2, UpUpdates
    <3>5. NoLink.dns = NoDns /\ NewLink(x).dns = NoDns  BY DEF NoLink, NewLink
    <3> QED  BY Zenon, <2>2, <3>2, <3>3, <3>4, <3>5 DEF HasServers
  <2>3. \A l \in Links : HasServers(l)' => HasServers(l) /\ table'[l].dns = table[l].dns
    BY Zenon, <2>2 DEF HasServers
  <2>4. \A l \in Links : HasServers(l)' /\ l \notin abandoned' => l \notin abandoned
    BY Zenon, <1>1 DEF HasServers, SyncKernelTable
  <2> QED  BY Zenon, <2>1, <2>3, <2>4, ServersKept DEF ServersOK
<1>2. ASSUME RtnlWakes \/ FinishKernel  PROVE ServersOK'
  <2>1. UNCHANGED <<table, specs, npc, todo, pc, call, abandoned>> /\ kpc' # "specs"
    BY Zenon, <1>2 DEF RtnlWakes, FinishKernel, stateVars, networkdVars, setterVars, history
  <2> QED  BY Zenon, <2>1, ServersKept DEF ServersOK, HasServers
<1>3. ASSUME ListLinks  PROVE ServersOK'
  <2>1. UNCHANGED <<table, specs, npc, todo, pc, call, abandoned>> /\ live' = {l \in Links : table[l].live}
    BY Zenon, <1>3 DEF ListLinks, stateVars, networkdVars, setterVars, history
  <2> QED  BY Zenon, <2>1, ServersKept DEF ServersOK, HasServers
<1>4. ASSUME RetainSpecs  PROVE ServersOK'
  <2>1. /\ UNCHANGED <<table, npc, todo, pc, call, abandoned>> /\ kpc = "specs" /\ kpc' = "finish"
        /\ \A l \in Links : l \in live => specs'[l] = specs[l]
    BY Zenon, <1>4 DEF RetainSpecs, networkdVars, setterVars
  <2>2. \A l \in Links : HasServers(l) => specs'[l] = specs[l]  BY Zenon, <2>1 DEF ServersOK,
                                                                   HasServers
  <2>3. \A l \in Links : HasServers(l)' => HasServers(l)  BY Zenon, <2>1 DEF HasServers
  <2>4. Owned \subseteq Links  BY Zenon DEF Owned
  <2>5. \A l \in Owned : OwnedOK(l)'  BY Zenon, <2>1, <2>2, <2>3, <2>4 DEF ServersOK, OwnedOK,
                                         Described
  <2>6. ASSUME NEW l \in Links \ Owned  PROVE FreeOK(l)'
    <3>1. HasServers(l) => (Described(l) => Described(l)')  BY Zenon, <2>1, <2>2, <2>6 DEF Described
    <3> QED  BY Zenon, <2>1, <2>3, <2>6, <3>1, FreeKept DEF ServersOK
  <2> QED  BY Zenon, <2>1, <2>5, <2>6 DEF ServersOK
<1> QED  BY Zenon, <1>1, <1>2, <1>3, <1>4 DEF RtnlThread

(* sync_networkd_links hands on the spec of each link it gives servers,    *)
(* and StoreSpecs stores it; when it returns early, it has changed only    *)
(* owned links.                                                            *)
LEMMA NetworkdServers ==
    ASSUME LinkConstants, Types, OwnerOK, ServersOK, NetworkdThread \/ NetworkdEnds
    PROVE  ServersOK'
<1>0. Owned \subseteq Links /\ specs \in [Links -> Specs]  BY Zenon DEF Owned, Types, StateType
<1>1. ASSUME SyncNetworkdTable  PROVE ServersOK'
  <2>1. /\ npc = "table" /\ npc' = "specs" /\ UNCHANGED <<specs, kpc, live, pc, call>>
        /\ \A l \in Links : table'[l] = Synced(l)
        /\ todo' = {Identity(l) : l \in {m \in Links : NoLongerManaged(m) \/ incoming[m].managed}}
    BY Zenon, <1>1 DEF SyncNetworkdTable, kernelVars, setterVars
  <2>2. \A l \in Links : /\ incoming[l].managed <=> l \in Owned
                         /\ networkd[l].managed => l \in Owned
    BY Zenon, <2>1 DEF OwnerOK
  <2>3. todo' = {Identity(l) : l \in Owned}
    <3>1. {m \in Links : NoLongerManaged(m) \/ incoming[m].managed} = Owned
      BY Zenon, <1>0, <2>2 DEF NoLongerManaged
    <3> QED  BY Zenon, <2>1, <3>1
  <2>4. \A i \in todo' : i.link \in Owned  BY Zenon, <1>0, <2>3, IdentityFacts
  <2>5. \A l \in Links : table'[l].live = table[l].live  BY Zenon, <2>1, SyncedFacts
  <2>6. ASSUME NEW l \in Owned, HasServers(l)'
        PROVE  (\E i \in todo' : i.link = l) /\ (\A i \in todo' : i.link = l => i.spec.dns = table'[l].dns)
    <3>1. table'[l] = Synced(l) /\ table[l].live /\ incoming[l].managed /\ table'[l].dns # NoDns
      BY Zenon, <1>0, <2>1, <2>2, <2>5, <2>6 DEF HasServers
    <3>2. PICK t, d, o, n : /\ t \in LinkStates /\ t = table[l] /\ d = incoming[l].dns
                            /\ o = incoming[l].option /\ n = incoming[l].name
      BY Zenon, <1>0, <2>6 DEF Types, StateType
    <3>3. Synced(l) = [t EXCEPT !.dns = d, !.option = o]  BY Zenon, <3>1, <3>2 DEF Synced,
                                                             NoLongerManaged
    <3>4. [t EXCEPT !.dns = d, !.option = o].dns = d  BY <3>2 DEF LinkStates
    <3>5. table'[l].dns = d /\ d # NoDns  BY Zenon, <3>1, <3>3, <3>4
    <3>6. Identity(l).spec = [dns |-> d, name |-> n]
      BY ZenonT(30), <1>0, <2>6, <3>1, <3>2, <3>5, IdentityFacts
    <3>7. Identity(l).spec.dns = d  BY <3>6
    <3>8. Identity(l) \in todo' /\ Identity(l).link = l  BY Zenon, <1>0, <2>3, <2>6, IdentityFacts
    <3>9. ASSUME NEW i \in todo', i.link = l  PROVE i = Identity(l)
      <4>1. PICK m \in Owned : i = Identity(m)  BY Zenon, <2>3, <3>9
      <4> QED  BY Zenon, <1>0, <3>9, <4>1, IdentityFacts
    <3> QED  BY Zenon, <3>5, <3>7, <3>8, <3>9
  <2>7. \A l \in Owned : OwnedOK(l)'  BY Zenon, <2>6 DEF OwnedOK
  <2>8. ASSUME NEW l \in Links \ Owned  PROVE FreeOK(l)'
    <3>1. table'[l] = table[l]  BY Zenon, <2>1, <2>2, <2>8 DEF Synced, NoLongerManaged
    <3>2. Described(l) => Described(l)'  BY Zenon, <2>1, <3>1 DEF Described
    <3>3. HasServers(l)' => HasServers(l)  BY Zenon, <3>1 DEF HasServers
    <3> QED  BY Zenon, <2>1, <2>8, <3>1, <3>2, <3>3, FreeKept DEF ServersOK
  <2> QED  BY Zenon, <2>1, <2>4, <2>5, <2>7, <2>8 DEF ServersOK
<1>2. ASSUME StoreSpecs  PROVE ServersOK'
  <2>1. PICK i \in todo : specs' = [specs EXCEPT ![i.link] = i.spec] /\ todo' = todo \ {i}
    BY Zenon, <1>2 DEF StoreSpecs
  <2>2. UNCHANGED <<table, npc, kpc, live, pc, call, abandoned>> /\ npc = "specs"
    BY Zenon, <1>2 DEF StoreSpecs, kernelVars, setterVars
  <2>3. i.link \in Owned  BY Zenon, <2>1 DEF ServersOK
  <2>4. \A l \in Links : specs'[l] = IF l = i.link THEN i.spec ELSE specs[l]  BY Zenon, <1>0, <2>1
  <2>5. ASSUME NEW l \in Owned  PROVE OwnedOK(l)'
    <3>1. OwnedOK(l)  BY Zenon, <2>5 DEF ServersOK
    <3>2. CASE l = i.link
      BY Zenon, <1>0, <2>1, <2>2, <2>4, <2>5, <3>1, <3>2 DEF OwnedOK, HasServers, Described
    <3>3. CASE l # i.link
      BY Zenon, <1>0, <2>1, <2>2, <2>4, <2>5, <3>1, <3>3 DEF OwnedOK, HasServers, Described
    <3> QED  BY Zenon, <3>2, <3>3
  <2>6. ASSUME NEW l \in Links \ Owned  PROVE FreeOK(l)'
    <3>1. specs'[l] = specs[l]  BY Zenon, <2>3, <2>4, <2>6
    <3>2. Described(l) => Described(l)'  BY Zenon, <2>2, <3>1 DEF Described
    <3>3. HasServers(l)' => HasServers(l)  BY Zenon, <2>2 DEF HasServers
    <3> QED  BY Zenon, <2>2, <2>6, <3>2, <3>3, FreeKept DEF ServersOK
  <2> QED  BY Zenon, <2>1, <2>2, <2>5, <2>6 DEF ServersOK
<1>3. ASSUME \/ OpenWatch \/ BeginSync \/ \E l \in Links : ReadFile(l)
             \/ LockNetworkd \/ FinishNetworkd \/ NetworkdEnds
      PROVE  ServersOK'
  <2>1. todo = {} /\ UNCHANGED <<table, specs, todo, kpc, live, pc, call, abandoned>>
    BY Zenon, <1>3 DEF ServersOK, OpenWatch, BeginSync, ReadFile, LockNetworkd, FinishNetworkd,
       NetworkdEnds, stateVars, kernelVars, setterVars, history
  <2> QED  BY Zenon, <2>1, ServersKept DEF ServersOK, HasServers
<1>4. ASSUME SyncNetworkdFails  PROVE ServersOK'
  <2>1. /\ npc = "table" /\ UNCHANGED <<specs, todo, kpc, live, pc, call>>
        /\ abandoned' = abandoned \cup {m \in Links : table'[m] # table[m]}
    BY Zenon, <1>4 DEF SyncNetworkdFails, kernelVars, setterVars
  <2>2. \A l \in Links : /\ incoming[l].managed <=> l \in Owned
                         /\ networkd[l].managed => l \in Owned
    BY Zenon, <2>1 DEF OwnerOK
  <2>3. \A l \in Links : table'[l].live = table[l].live  BY Zenon, <1>4, FailedFacts
  <2>4. ASSUME NEW l \in Owned, l \notin abandoned'  PROVE l \notin abandoned /\ table'[l] = table[l]
    BY Zenon, <1>0, <2>1, <2>4
  <2>5. \A l \in Owned : OwnedOK(l)'
    BY Zenon, <2>1, <2>4 DEF ServersOK, OwnedOK, HasServers, Described
  <2>6. ASSUME NEW l \in Links \ Owned  PROVE FreeOK(l)'
    <3>1. table'[l] = table[l]  BY Zenon, <1>4, <2>2, <2>6, FailedFacts
    <3>2. Described(l) => Described(l)'  BY Zenon, <2>1, <3>1 DEF Described
    <3>3. HasServers(l)' => HasServers(l)  BY Zenon, <3>1 DEF HasServers
    <3> QED  BY Zenon, <2>1, <2>6, <3>1, <3>2, <3>3, FreeKept DEF ServersOK
  <2>7. todo = {}  BY Zenon, <2>1 DEF ServersOK
  <2> QED  BY Zenon, <2>1, <2>3, <2>5, <2>6, <2>7 DEF ServersOK
<1> QED  BY Zenon, <1>1, <1>2, <1>3, <1>4 DEF NetworkdThread

(* A setter writes the servers and then their spec; it is the only setter, *)
(* and at a link networkd does not own.                                    *)
LEMMA SetterServers ==
    ASSUME LinkConstants, OneSetter, Types, OwnerOK, ServersOK,
           NEW u \in Setters, StartCall(u) \/ Setter(u)
    PROVE  ServersOK'
<1>0. /\ Owned \subseteq Links /\ specs \in [Links -> Specs] /\ table \in [Links -> LinkStates]
      /\ pc \in [Setters -> {"idle", "check", "table", "specs", "finish"}]
      /\ \A v \in Setters : v = u
  BY Zenon DEF Owned, Types, StateType, SetterType, OneSetter
<1>1. UNCHANGED <<npc, todo, kpc, live, abandoned>>
  BY Zenon DEF StartCall, Setter, ensure_link_writable, SetTable, SetSpecs, FinishCall,
     kernelVars, networkdVars, history
<1>2. ASSUME NEW l \in Links \ Owned, HasServers(l), pc[u] # "specs"  PROVE Described(l)
  <2>1. ~Storing(l, table[l].dns)  BY Zenon, <1>0, <1>2 DEF Storing
  <2> QED  BY Zenon, <1>2, <2>1 DEF ServersOK, FreeOK
<1>3. ASSUME NEW l \in Owned, table'[l] = table[l], specs'[l] = specs[l]  PROVE OwnedOK(l)'
  <2>1. HasServers(l)' => HasServers(l)  BY Zenon, <1>3 DEF HasServers
  <2>2. Described(l) => Described(l)'  BY Zenon, <1>3 DEF Described
  <2>3. OwnedOK(l)  BY Zenon, <1>3 DEF ServersOK
  <2> QED  BY Zenon, <1>1, <1>3, <2>1, <2>2, <2>3 DEF OwnedOK
<1>4. ASSUME UNCHANGED <<table, specs>>, pc[u] # "specs", pc'[u] # "specs"  PROVE ServersOK'
  <2>1. \A l \in Owned : OwnedOK(l)'  BY Zenon, <1>0, <1>3, <1>4
  <2>2. ASSUME NEW l \in Links \ Owned, HasServers(l)'  PROVE (Described(l) /\ NoneStoring(l))'
    <3>1. Described(l)  BY Zenon, <1>2, <1>4, <2>2 DEF HasServers
    <3>2. NoneStoring(l)'  BY Zenon, <1>0, <1>4 DEF NoneStoring
    <3> QED  BY Zenon, <1>4, <3>1, <3>2 DEF Described
  <2>3. \A l \in Links \ Owned : FreeOK(l)'  BY Zenon, <2>2 DEF FreeOK
  <2> QED  BY Zenon, <1>1, <1>4, <2>1, <2>3 DEF ServersOK
<1>5. CASE StartCall(u) \/ ensure_link_writable(u) \/ FinishCall(u)
  <2>1. /\ UNCHANGED <<table, specs>> /\ pc[u] # "specs"
        /\ \E p \in {"idle", "check", "table"} : pc' = [pc EXCEPT ![u] = p]
    BY Zenon, <1>5 DEF StartCall, ensure_link_writable, FinishCall, EndCall, stateVars
  <2>2. pc'[u] # "specs"  BY Zenon, <1>0, <2>1
  <2> QED  BY Zenon, <1>4, <2>1, <2>2
<1>6. CASE SetTable(u)
  <2>1. pc[u] = "table" /\ specs' = specs  BY Zenon, <1>6 DEF SetTable
  <2>2. PICK c \in Calls : c = call[u]  BY Zenon, <2>1 DEF Types, SetterType
  <2>3. c.link \in Links \ Owned  BY Zenon, <2>1, <2>2, CallLinks DEF OwnerOK
  <2>4. CASE ~table[c.link].live
    <3>1. table' = table /\ pc' = [pc EXCEPT ![u] = "idle"]  BY Zenon, <1>6, <2>2,
                                                                <2>4 DEF SetTable, EndCall
    <3>2. pc'[u] # "specs"  BY Zenon, <1>0, <3>1
    <3> QED  BY Zenon, <1>4, <2>1, <3>1, <3>2
  <2>5. CASE table[c.link].live
    <3>1. PICK t \in LinkStates : t = table[c.link]  BY Zenon, <1>0, <2>3
    <3>2. /\ table' = [table EXCEPT ![c.link] = Applied(t, c)] /\ call' = call
          /\ pc' = [pc EXCEPT ![u] = IF c.op = "option" THEN "finish" ELSE "specs"]
      BY Zenon, <1>6, <2>2, <2>5, <3>1 DEF SetTable
    <3>3. table'[c.link] = Applied(t, c) /\ \A l \in Links \ {c.link} : table'[l] = table[l]
      BY Zenon, <1>0, <2>3, <3>2
    <3>4. pc'[u] = (IF c.op = "option" THEN "finish" ELSE "specs") /\ call'[u] = c
      BY Zenon, <1>0, <2>2, <3>2
    <3>5. \A l \in Owned : OwnedOK(l)'  BY Zenon, <1>0, <1>3, <2>1, <2>3, <3>3
    <3>6. ASSUME NEW l \in Links \ Owned, l # c.link  PROVE FreeOK(l)'
      <4>1. NoneStoring(l)'  BY Zenon, <1>0, <3>4, <3>6 DEF NoneStoring
      <4>2. HasServers(l)' => Described(l)'
        BY Zenon, <1>2, <2>1, <3>3, <3>6 DEF HasServers, Described
      <4> QED  BY Zenon, <4>1, <4>2 DEF FreeOK
    <3>7. FreeOK(c.link)'
      <4>0. /\ c.op = "dns" => Applied(t, c).dns = c.dns
            /\ c.op = "option" => Applied(t, c).dns = t.dns
            /\ c.op = "revert" => Applied(t, c).dns = NoDns
        BY Zenon, <2>2, <3>1, AppliedFacts
      <4>1. CASE c.op = "dns"
        <5>1. table'[c.link].dns = c.dns  BY Zenon, <3>1, <3>3, <4>0, <4>1
        <5>2. pc'[u] = "specs"  BY <3>4, <4>1
        <5>3. Storing(c.link, table[c.link].dns)'  BY Zenon, <3>4, <4>1, <5>1, <5>2 DEF Storing
        <5> QED  BY Zenon, <5>3 DEF FreeOK
      <4>2. CASE c.op = "option"
        <5>1. table'[c.link].dns = table[c.link].dns  BY Zenon, <3>1, <3>3, <4>0, <4>2
        <5>2. HasServers(c.link)' => HasServers(c.link)  BY Zenon, <2>5, <5>1 DEF HasServers
        <5>3. HasServers(c.link)' => Described(c.link)'
          BY Zenon, <1>2, <2>1, <2>3, <5>1, <5>2 DEF Described
        <5>4. pc'[u] = "finish"  BY Zenon, <3>4, <4>2
        <5>5. NoneStoring(c.link)'  BY Zenon, <1>0, <5>4 DEF NoneStoring
        <5> QED  BY Zenon, <5>3, <5>5 DEF FreeOK
      <4>3. CASE c.op = "revert"
        <5>1. table'[c.link].dns = NoDns  BY Zenon, <3>1, <3>3, <4>0, <4>3
        <5> QED  BY Zenon, <5>1 DEF FreeOK, HasServers
      <4> QED  BY Zenon, <2>2, <4>1, <4>2, <4>3, CallLinks
    <3>8. \A l \in Links \ Owned : FreeOK(l)'  BY Zenon, <3>6, <3>7
    <3>9. \A l \in Links : table'[l].live => table[l].live  BY Zenon, <2>5, <3>3
    <3> QED  BY Zenon, <1>1, <3>5, <3>8, <3>9 DEF ServersOK
  <2> QED  BY Zenon, <2>4, <2>5
<1>7. CASE SetSpecs(u)
  <2>1. pc[u] = "specs" /\ table' = table /\ call' = call  BY Zenon, <1>7 DEF SetSpecs
  <2>2. PICK c \in Calls : c = call[u]  BY Zenon, <2>1 DEF Types, SetterType
  <2>3. c.link \in Links \ Owned  BY Zenon, <2>1, <2>2, CallLinks DEF OwnerOK
  <2>4. specs' = [specs EXCEPT ![c.link] = SpecOf(c)] /\ pc' = [pc EXCEPT ![u] = "finish"]
    BY Zenon, <1>7, <2>2 DEF SetSpecs, SpecOf
  <2>5. specs'[c.link] = SpecOf(c) /\ \A l \in Links \ {c.link} : specs'[l] = specs[l]
    BY Zenon, <1>0, <2>3, <2>4
  <2>6. pc'[u] # "specs"  BY Zenon, <1>0, <2>4
  <2>7. \A l \in Owned : OwnedOK(l)'  BY Zenon, <1>0, <1>3, <2>1, <2>3, <2>5
  <2>8. ASSUME NEW l \in Links \ Owned  PROVE FreeOK(l)'
    <3>1. NoneStoring(l)'  BY Zenon, <1>0, <2>6 DEF NoneStoring
    <3>2. SUFFICES ASSUME HasServers(l)'  PROVE specs'[l].dns = table'[l].dns
      BY Zenon, <3>1 DEF FreeOK, Described
    <3>3. HasServers(l)  BY Zenon, <2>1, <3>2 DEF HasServers
    <3>4. Storing(l, table[l].dns) \/ (Described(l) /\ NoneStoring(l))
      BY Zenon, <2>8, <3>3 DEF ServersOK, FreeOK
    <3>5. CASE l = c.link
      <4>1. ~NoneStoring(l)  BY Zenon, <2>1, <2>2, <3>5 DEF NoneStoring
      <4>2. c.op = "dns" /\ c.dns = table[l].dns  BY Zenon, <1>0, <2>2, <3>4, <4>1 DEF Storing
      <4>3. SpecOf(c).dns = c.dns  BY Zenon, <2>2, <4>2, SpecFacts
      <4> QED  BY Zenon, <2>1, <2>5, <3>5, <4>2, <4>3
    <3>6. CASE l # c.link
      <4>1. ~Storing(l, table[l].dns)  BY Zenon, <1>0, <2>2, <3>6 DEF Storing
      <4> QED  BY Zenon, <2>1, <2>5, <2>8, <3>4, <3>6, <4>1 DEF Described
    <3> QED  BY Zenon, <3>5, <3>6
  <2> QED  BY Zenon, <1>1, <2>1, <2>7, <2>8 DEF ServersOK
<1> QED  BY Zenon, <1>5, <1>6, <1>7 DEF Setter

(* Every step keeps the two halves of a link's servers in agreement.       *)
LEMMA NextServers ==
    ASSUME LinkConstants, OneSetter, Types, OwnerOK, ServersOK, [Next]_vars
    PROVE  ServersOK'
<1>1. ASSUME UNCHANGED <<table, specs, npc, todo, live, pc, call, abandoned>>, kpc' = kpc \/ kpc' # "specs"
      PROVE  ServersOK'
  BY Zenon, <1>1, ServersKept DEF ServersOK, HasServers
<1>2. ASSUME \/ \E l \in Links : KernelChanges(l) \/ NetworkdWrites(l)
             \/ \E q \in Queriers : Select(q) \/ Querier(q)
             \/ OpenRtnl \/ RtnlEnds \/ UNCHANGED vars
      PROVE  ServersOK'
  BY Zenon, <1>1, <1>2 DEF KernelChanges, NetworkdWrites, Select, Querier, Filter, Ask, OpenRtnl,
     RtnlEnds, vars, stateVars, kernelVars, networkdVars, setterVars, history
<1>3. CASE RtnlThread  BY Zenon, <1>3, KernelServers
<1>4. CASE NetworkdThread \/ NetworkdEnds  BY Zenon, <1>4, NetworkdServers
<1>5. CASE \E u \in Setters : StartCall(u) \/ Setter(u)  BY Zenon, <1>5, SetterServers
<1> QED  BY Zenon, <1>2, <1>3, <1>4, <1>5 DEF Next, Quiescent

(* At the start no link has servers.                                       *)
LEMMA InitServers == ASSUME LinkConstants, Init PROVE ServersOK
<1>1. \A l \in Links : ~HasServers(l)
  <2>1. \A l \in Links : ~networkd[l].managed  BY Zenon DEF Init, Nobody, Unmanaged
  <2>2. abandoned = {}  BY Zenon DEF Init
  <2> QED  BY Zenon, <2>1, <2>2, InitReverted DEF RevertedOK, Plain, HasServers
<1>2. Owned \subseteq Links  BY Zenon DEF Owned
<1> QED  BY Zenon, <1>1, <1>2 DEF Init, ServersOK, OwnedOK, FreeOK

(***************************************************************************)
(* The two halves of a link's servers, kept under different locks by three *)
(* threads, agree when no thread is between them: the servers of a link    *)
(* have their own specs (the server name TLS checks, the interface), not   *)
(* another list's.  For links that stay managed or stay unmanaged, with    *)
(* the D-Bus calls made one after the other; a link that the early return  *)
(* of sync_networkd_links has left half done is excepted until a           *)
(* synchronization reaches it or it leaves the kernel.                     *)
(***************************************************************************)
THEOREM SpecsFollowServers ==
    ASSUME LinkConstants, OwnersFixed, OneSetter
    PROVE  Spec => []SpecsDescribeServers
<1>1. Init => Types /\ OwnerOK /\ ServersOK  BY Zenon, InitTypes, InitOwner, InitServers
<1>2. Types /\ OwnerOK /\ ServersOK /\ [Next]_vars => (Types /\ OwnerOK /\ ServersOK)'
  BY Zenon, NextTypes, NextOwner, NextServers
<1>3. ServersOK => SpecsDescribeServers
  <2>1. SUFFICES ASSUME ServersOK, NEW l \in Links \ abandoned, AtRest(l), HasServers(l)
                 PROVE  Described(l)
    BY Zenon DEF SpecsDescribeServers, HasServers, Described
  <2>2. CASE l \in Owned  BY Zenon, <2>1, <2>2 DEF ServersOK, OwnedOK, AtRest
  <2>3. CASE l \notin Owned
    <3>1. ~Storing(l, table[l].dns)  BY Zenon, <2>1 DEF AtRest, Storing
    <3> QED  BY Zenon, <2>1, <2>3, <3>1 DEF ServersOK, FreeOK
  <2> QED  BY Zenon, <2>2, <2>3
<1> QED  BY <1>1, <1>2, <1>3, PTL DEF Spec

=============================================================================
