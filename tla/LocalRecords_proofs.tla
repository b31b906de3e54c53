------------------------ MODULE LocalRecords_proofs -------------------------
(***************************************************************************)
(* The static records, for any directories, files and bodies: an equal     *)
(* fingerprint is proof that the records are those of the files that could *)
(* be read when they were loaded, however edits, refreshes, failing reads  *)
(* and reloads interleave.  The inductive invariant says it of every set   *)
(* of stamps that was ever taken: as long as no file has moved past its    *)
(* stamp, the records are what the stamped files hold, but for the unread  *)
(* ones.  A stamp is never reused, so once it is passed it stays so.       *)
(***************************************************************************)
EXTENDS LocalRecords, TLAPS

(* The bounds are numbers.                                                 *)
LocalConstants == MaxEdits \in Nat /\ MaxFaults \in Nat

Stamps == [place : Places, masked : BOOLEAN, modified : Nat]
Selections == [place : Places, masked : BOOLEAN]
Refreshes == [at : {"idle", "stamp", "load"}, selected : SUBSET Selections, stamps : SUBSET Stamps]

(* Every file that is there has the stamp of some edit made so far.        *)
FilesTyped ==
    /\ files \in [Places -> [masked : BOOLEAN, body : {{}} \cup Bodies, modified : Nat]]
    /\ \A p \in Places : files[p] = Absent \/ files[p].modified \in 1 .. edits
    /\ edits \in 0 .. MaxEdits

(* Stamps of edits made so far.                                            *)
Taken(S) == \A s \in S : s \in Stamps /\ s.modified \in 1 .. edits

(* No stamped file has been written since.                                 *)
Current(S) == \A s \in S : files[s.place].modified = s.modified

(* What the stamped files hold, but for the masked and the unread ones.    *)
Held(S, U) == UNION {Added(files[s.place].body) : s \in {x \in S : ~x.masked /\ x.place \notin U}}

(* The refresh in progress has stamped exactly the files it has selected.  *)
Chosen(S) == {[place |-> s.place, masked |-> s.masked] : s \in S}
RefreshOK ==
    /\ refresh \in Refreshes
    /\ refresh.at = "load" => Taken(refresh.stamps) /\ Chosen(refresh.stamps) = refresh.selected

Covered ==
    /\ FilesTyped /\ RefreshOK /\ Taken(stamps)
    /\ Current(stamps) => records = Held(stamps, unread)

-----------------------------------------------------------------------------
(* Held and load_selected_files read the same files.                       *)
LEMMA LoadIsHeld ==
    ASSUME NEW S, NEW C, NEW U, C = Chosen(S)
    PROVE  load_selected_files(C, U) = Held(S, U)
<1>1. \A x : x \in load_selected_files(C, U) <=>
          \E s \in C : ~s.masked /\ s.place \notin U /\ x \in Added(files[s.place].body)
  BY Zenon DEF load_selected_files
<1>2. \A x : x \in Held(S, U) <=>
          \E s \in S : ~s.masked /\ s.place \notin U /\ x \in Added(files[s.place].body)
  BY Zenon DEF Held
<1>3. ASSUME NEW s \in S PROVE \E c \in C : c.place = s.place /\ c.masked = s.masked
  <2>1. [place |-> s.place, masked |-> s.masked] \in C  BY DEF Chosen
  <2> QED  BY <2>1
<1>4. \A c \in C : \E s \in S : c.place = s.place /\ c.masked = s.masked
  BY DEF Chosen
<1>5. ASSUME NEW x \in load_selected_files(C, U) PROVE x \in Held(S, U)
  <2>1. PICK c \in C : ~c.masked /\ c.place \notin U /\ x \in Added(files[c.place].body)
    BY <1>1, <1>5, Zenon
  <2>2. PICK s \in S : c.place = s.place /\ c.masked = s.masked  BY <1>4, Zenon
  <2>3. ~s.masked /\ s.place \notin U /\ x \in Added(files[s.place].body)  BY <2>1, <2>2, Zenon
  <2> QED  BY <1>2, <2>3, Zenon
<1>6. ASSUME NEW x \in Held(S, U) PROVE x \in load_selected_files(C, U)
  <2>1. PICK s \in S : ~s.masked /\ s.place \notin U /\ x \in Added(files[s.place].body)
    BY <1>2, <1>6, Zenon
  <2>2. PICK c \in C : c.place = s.place /\ c.masked = s.masked  BY <1>3, Zenon
  <2>3. ~c.masked /\ c.place \notin U /\ x \in Added(files[c.place].body)  BY <2>1, <2>2, Zenon
  <2> QED  BY <1>1, <2>3, Zenon
<1> QED  BY <1>5, <1>6, Zenon

(* A fingerprint taken now is current, and stamps what was selected.       *)
LEMMA FingerprintIsCurrent ==
    ASSUME FilesTyped, NEW C, C \subseteq Selections
    PROVE  /\ fingerprint(C) \subseteq Stamps
           /\ Chosen(fingerprint(C)) = C
           /\ Current(fingerprint(C))
<1> DEFINE st(s) == [place |-> s.place, masked |-> s.masked, modified |-> files[s.place].modified]
<1>1. \A s \in C : /\ s = [place |-> s.place, masked |-> s.masked]
                   /\ s.place \in Places /\ s.masked \in BOOLEAN
  BY DEF Selections
<1>2. \A p \in Places : files[p].modified \in Nat  BY DEF FilesTyped
<1>3. \A s \in C : st(s) \in Stamps  BY <1>1, <1>2 DEF Stamps
<1>4. \A f \in fingerprint(C) : \E s \in C : f = st(s)  BY DEF fingerprint
<1>5. \A s \in C : st(s) \in fingerprint(C)  BY DEF fingerprint
<1>6. fingerprint(C) \subseteq Stamps  BY <1>3, <1>4, Zenon
<1>7. Current(fingerprint(C))
  <2> SUFFICES ASSUME NEW f \in fingerprint(C) PROVE files[f.place].modified = f.modified
    BY DEF Current
  <2> QED  BY <1>4
<1>8. Chosen(fingerprint(C)) = C
  <2>1. \A x : x \in Chosen(fingerprint(C)) <=>
            \E f \in fingerprint(C) : x = [place |-> f.place, masked |-> f.masked]
    BY DEF Chosen
  <2>2. ASSUME NEW x \in Chosen(fingerprint(C)) PROVE x \in C
    <3>1. PICK f \in fingerprint(C) : x = [place |-> f.place, masked |-> f.masked]  BY <2>1, <2>2
    <3>2. PICK s \in C : f = st(s)  BY <1>4
    <3>3. f.place = s.place /\ f.masked = s.masked  BY <3>2
    <3> QED  BY <3>1, <3>3, <1>1
  <2>3. ASSUME NEW s \in C PROVE s \in Chosen(fingerprint(C))
    <3>1. st(s).place = s.place /\ st(s).masked = s.masked  OBVIOUS
    <3> HIDE DEF st
    <3>2. s = [place |-> st(s).place, masked |-> st(s).masked]  BY <3>1, <1>1
    <3> QED  BY <3>2, <1>5, <2>1
  <2> QED  BY <2>2, <2>3, Zenon
<1> QED  BY <1>6, <1>7, <1>8

(* A selection of the files names places, and masks.                       *)
LEMMA SelectionTyped ==
    ASSUME FilesTyped
    PROVE  select_files \subseteq Selections
<1>1. \A p \in Places : files[p].masked \in BOOLEAN  BY DEF FilesTyped
<1> QED  BY <1>1 DEF select_files, Selections

-----------------------------------------------------------------------------
(* A step that leaves the files alone leaves what is said of stamps alone. *)
LEMMA FilesStay ==
    ASSUME FilesTyped, UNCHANGED <<files, edits>>
    PROVE  /\ FilesTyped'
           /\ \A S : (Taken(S) => Taken(S)') /\ (Current(S)' <=> Current(S))
           /\ \A S, U : Held(S, U)' = Held(S, U)
<1>1. FilesTyped'  BY Zenon DEF FilesTyped
<1>2. ASSUME NEW S PROVE (Taken(S) => Taken(S)') /\ (Current(S)' <=> Current(S))
  BY Zenon DEF Taken, Current
<1>3. ASSUME NEW S, NEW U PROVE Held(S, U)' = Held(S, U)
  BY Zenon DEF Held
<1> QED  BY <1>1, <1>2, <1>3, Zenon

(* While the files, the records and their stamps stay, so does what they   *)
(* say of each other.                                                      *)
LEMMA StampsStay ==
    ASSUME FilesTyped, UNCHANGED <<files, edits, records, unread, stamps>>,
           Taken(stamps), Current(stamps) => records = Held(stamps, unread)
    PROVE  Taken(stamps)' /\ (Current(stamps)' => records' = Held(stamps, unread)')
<1>1. Taken(stamps)'  BY Zenon DEF Taken
<1>2. Current(stamps)' <=> Current(stamps)  BY Zenon DEF Current
<1>3. Held(stamps, unread)' = Held(stamps, unread)  BY Zenon DEF Held
<1> QED  BY <1>1, <1>2, <1>3, Zenon

(* The same for a refresh.                                                 *)
LEMMA RefreshStays ==
    ASSUME RefreshOK, UNCHANGED <<files, edits, refresh>>
    PROVE  RefreshOK'
BY Zenon DEF RefreshOK, Taken, Chosen

(* What an edit may make of a file: nothing, records or a mask, with the   *)
(* number of the edit as its stamp.                                        *)
LEMMA EditWrites ==
    ASSUME NEW p, Edit(p), edits \in Nat
    PROVE  \E new \in [masked : BOOLEAN, body : {{}} \cup Bodies, modified : Nat] :
              /\ (new = Absent /\ new.modified = 0) \/ new.modified = edits + 1
              /\ files' = [files EXCEPT ![p] = new]
<1> DEFINE Good(new) == /\ new \in [masked : BOOLEAN, body : {{}} \cup Bodies, modified : Nat]
                        /\ (new = Absent /\ new.modified = 0) \/ new.modified = edits + 1
<1>1. PICK n \in Nat : n = edits + 1 /\ n = edits'  BY DEF Edit
<1>2. PICK new \in {Absent} \cup [masked : {FALSE}, body : Bodies, modified : {n}]
                          \cup [masked : {TRUE}, body : {{}}, modified : {n}] :
          files' = [files EXCEPT ![p] = new]
  BY <1>1, Zenon DEF Edit
<1>3. CASE new = Absent
  <2>1. Good(new)  BY <1>3 DEF Absent
  <2> QED  BY <1>2, <2>1
<1>4. CASE new \in [masked : {FALSE}, body : Bodies, modified : {n}]
  <2>1. Good(new)  BY <1>1, <1>4
  <2> QED  BY <1>2, <2>1
<1>5. CASE new \in [masked : {TRUE}, body : {{}}, modified : {n}]
  <2>1. Good(new)  BY <1>1, <1>5
  <2> QED  BY <1>2, <2>1
<1> QED  BY <1>2, <1>3, <1>4, <1>5

(* An edit makes the stamps of its file old, and leaves the other files.   *)
LEMMA EditedStamps ==
    ASSUME FilesTyped, LocalConstants, NEW p \in Places, Edit(p), NEW S, NEW U, Taken(S)
    PROVE  /\ Taken(S)'
           /\ Current(S)' => Current(S) /\ Held(S, U)' = Held(S, U)
<1>1. edits \in Nat /\ edits' = edits + 1  BY DEF Edit, FilesTyped, LocalConstants
<1>2. PICK new \in [masked : BOOLEAN, body : {{}} \cup Bodies, modified : Nat] :
          /\ (new = Absent /\ new.modified = 0) \/ new.modified = edits + 1
          /\ files' = [files EXCEPT ![p] = new]
  BY <1>1, EditWrites, Zenon
<1>3. new.modified \in {0, edits + 1}  BY <1>2
<1>4. files'[p] = new /\ \A q \in Places : q # p => files'[q] = files[q]  BY <1>2, Zenon DEF FilesTyped
<1>5. \A s \in S : s.place \in Places /\ s.modified \in 1 .. edits  BY DEF Taken, Stamps
<1>6. Taken(S)'
  <2>1. \A s \in S : s.modified \in 1 .. edits'  BY <1>1, <1>5
  <2> QED  BY <2>1, Zenon DEF Taken
<1>7. ASSUME Current(S)' PROVE Current(S) /\ Held(S, U)' = Held(S, U)
  <2>1. ASSUME NEW s \in S PROVE files'[s.place] = files[s.place]
    <3>1. files'[s.place].modified = s.modified  BY <1>7, Zenon DEF Current
    <3>2. s.modified # new.modified  BY <1>1, <1>3, <1>5
    <3>3. s.place # p  BY <1>4, <3>1, <3>2
    <3> QED  BY <1>4, <1>5, <3>3, Zenon
  <2>2. Current(S)  BY <1>7, <2>1 DEF Current
  <2>4. \A x : x \in Held(S, U)' <=>
            \E s \in S : ~s.masked /\ s.place \notin U /\ x \in Added(files'[s.place].body)
    BY Zenon DEF Held
  <2>5. \A x : x \in Held(S, U) <=>
            \E s \in S : ~s.masked /\ s.place \notin U /\ x \in Added(files[s.place].body)
    BY Zenon DEF Held
  <2>6. \A x : x \in Held(S, U)' <=> x \in Held(S, U)  BY <2>1, <2>4, <2>5, Zenon
  <2>7. Held(S, U)' = Held(S, U)  BY <2>6, Zenon
  <2> QED  BY <2>2, <2>7
<1> QED  BY <1>6, <1>7

(* An edit gives its file a stamp of its own.                              *)
LEMMA EditedFiles ==
    ASSUME FilesTyped, LocalConstants, NEW p \in Places, Edit(p)
    PROVE  FilesTyped'
<1>1. edits \in 0 .. MaxEdits /\ edits < MaxEdits /\ edits' = edits + 1  BY DEF Edit, FilesTyped
<1>2. edits' \in 0 .. MaxEdits /\ edits' \in 1 .. edits' /\ edits' \in Nat  BY <1>1 DEF LocalConstants
<1>3. PICK new \in [masked : BOOLEAN, body : {{}} \cup Bodies, modified : Nat] :
          /\ (new = Absent /\ new.modified = 0) \/ new.modified = edits + 1
          /\ files' = [files EXCEPT ![p] = new]
  <2>1. edits \in Nat  BY <1>1 DEF LocalConstants
  <2> QED  BY <2>1, EditWrites, Zenon
<1>4. new = Absent \/ new.modified \in 1 .. edits'  BY <1>1, <1>2, <1>3
<1>5. files' \in [Places -> [masked : BOOLEAN, body : {{}} \cup Bodies, modified : Nat]]
  BY <1>3, Zenon DEF FilesTyped
<1>6. files'[p] = new /\ \A q \in Places : q # p => files'[q] = files[q]  BY <1>3, Zenon DEF FilesTyped
<1>7. ASSUME NEW q \in Places PROVE files'[q] = Absent \/ files'[q].modified \in 1 .. edits'
  <2>1. CASE q = p  BY <1>4, <1>6, <2>1
  <2>2. CASE q # p
    <3>1. files'[q] = files[q]  BY <1>6, <2>2
    <3>2. files[q] = Absent \/ files[q].modified \in 1 .. edits  BY Zenon DEF FilesTyped
    <3> QED  BY <1>1, <3>1, <3>2
  <2> QED  BY <2>1, <2>2
<1> QED  BY <1>2, <1>5, <1>7, Zenon DEF FilesTyped

(* An edit of a *.rr file.                                                 *)
LEMMA EditStep ==
    ASSUME Covered, LocalConstants, NEW p \in Places, Edit(p)
    PROVE  Covered'
<1>1. FilesTyped'  BY EditedFiles DEF Covered
<1>2. UNCHANGED <<refresh, stamps, records, unread>>  BY Zenon DEF Edit, static
<1>3. Taken(stamps)' /\ (Current(stamps)' => Current(stamps) /\ Held(stamps, unread)' = Held(stamps, unread))
  <2>1. PICK S, U : S = stamps /\ U = unread  OBVIOUS
  <2>2. Taken(S)' /\ (Current(S)' => Current(S) /\ Held(S, U)' = Held(S, U))
    BY <2>1, EditedStamps, Zenon DEF Covered
  <2>3. S = stamps' /\ U = unread'  BY <1>2, <2>1
  <2> QED  BY <2>1, <2>2, <2>3 DEF Taken, Current, Held
<1>4. RefreshOK'
  <2>1. ASSUME refresh.at = "load" PROVE Taken(refresh.stamps)'
    <3>1. PICK S : S = refresh.stamps  OBVIOUS
    <3>2. Taken(S)'  BY <2>1, <3>1, EditedStamps, Zenon DEF Covered, RefreshOK
    <3>3. S = refresh.stamps'  BY <1>2, <3>1
    <3> QED  BY <3>2, <3>3 DEF Taken
  <2> QED  BY <1>2, <2>1, Zenon DEF Covered, RefreshOK
<1> QED  BY <1>1, <1>2, <1>3, <1>4, Zenon DEF Covered

(* refresh_if_due up to select_files.                                      *)
LEMMA StartStep ==
    ASSUME Covered, StartRefresh
    PROVE  Covered'
<1>1. UNCHANGED <<files, edits, records, unread, stamps>>  BY Zenon DEF StartRefresh
<1>2. FilesTyped'  BY <1>1, FilesStay, Zenon DEF Covered
<1>3. refresh' = Idle \/ refresh' = [Idle EXCEPT !.at = "stamp", !.selected = select_files]
  BY Zenon DEF StartRefresh, Answer
<1>4. RefreshOK'
  <2>1. PICK C : C = select_files /\ C \subseteq Selections
    <3>1. select_files \subseteq Selections  BY SelectionTyped DEF Covered
    <3> QED  BY <3>1, Zenon
  <2>2. refresh' = Idle \/ refresh' = [Idle EXCEPT !.at = "stamp", !.selected = C]  BY <1>3, <2>1, Zenon
  <2>3. refresh' = Idle \/ refresh' = [at |-> "stamp", selected |-> C, stamps |-> {}]  BY <2>2 DEF Idle
  <2>4. refresh' \in Refreshes  BY <2>1, <2>3 DEF Idle, Refreshes
  <2>5. refresh'.at # "load"  BY <2>3 DEF Idle
  <2> QED  BY <2>4, <2>5 DEF RefreshOK
<1> QED  BY <1>1, <1>2, <1>4, StampsStay DEF Covered

(* The fingerprint is taken: all selected files are there, or the refresh  *)
(* ends.                                                                   *)
LEMMA StampStep ==
    ASSUME Covered, Stamp
    PROVE  Covered'
<1>1. UNCHANGED <<files, edits, records, unread, stamps>>  BY Zenon DEF Stamp
<1>2. FilesTyped'  BY <1>1, FilesStay, Zenon DEF Covered
<1>3. refresh \in Refreshes /\ refresh.selected \subseteq Selections  BY DEF Covered, RefreshOK, Refreshes
<1>4. RefreshOK'
  <2>1. CASE refresh' = Idle
    <3>1. refresh' \in Refreshes /\ refresh'.at # "load"  BY <2>1 DEF Idle, Refreshes
    <3> QED  BY <3>1 DEF RefreshOK
  <2>2. CASE /\ \A s \in refresh.selected : files[s.place] # Absent
             /\ refresh' = [refresh EXCEPT !.at = "load", !.stamps = fingerprint(refresh.selected)]
    <3>1. PICK C : C = refresh.selected  OBVIOUS
    <3>2. refresh'.at = "load" /\ refresh'.selected = C /\ refresh'.stamps = fingerprint(C)
      BY <1>3, <2>2, <3>1 DEF Refreshes
    <3>3. fingerprint(C) \subseteq Stamps /\ Chosen(fingerprint(C)) = C
      BY <1>3, <3>1, FingerprintIsCurrent DEF Covered
    <3>4. \A f \in fingerprint(C) : f.modified \in 1 .. edits
      <4>1. SUFFICES ASSUME NEW s \in C PROVE files[s.place].modified \in 1 .. edits
        BY DEF fingerprint
      <4>2. s.place \in Places /\ files[s.place] # Absent  BY <1>3, <2>2, <3>1 DEF Selections
      <4> QED  BY <4>2, Zenon DEF Covered, FilesTyped
    <3>5. Taken(fingerprint(C))  BY <3>3, <3>4, Zenon DEF Taken
    <3>6. PICK S : S = fingerprint(C)  OBVIOUS
    <3>7. Taken(S)'  BY <1>1, <3>5, <3>6, FilesStay, Zenon DEF Covered
    <3>8. Taken(refresh.stamps)'  BY <3>2, <3>6, <3>7 DEF Taken
    <3>9. (Chosen(refresh.stamps) = refresh.selected)'  BY <3>2, <3>3 DEF Chosen
    <3>10. refresh' \in Refreshes
      <4>1. PICK S2 \in SUBSET Stamps : S2 = fingerprint(refresh.selected)  BY <3>1, <3>3
      <4>2. refresh' = [refresh EXCEPT !.at = "load", !.stamps = S2]  BY <2>2, <4>1
      <4> QED  BY <1>3, <4>2 DEF Refreshes
    <3> QED  BY <3>2, <3>8, <3>9, <3>10 DEF RefreshOK
  <2> QED  BY <2>1, <2>2, Zenon DEF Stamp, Answer
<1> QED  BY <1>1, <1>2, <1>4, StampsStay DEF Covered

(* The selected files are loaded: whatever was written since they were     *)
(* stamped, the records are what these files hold at the load, but for     *)
(* those that cannot be read.                                              *)
LEMMA LoadStep ==
    ASSUME Covered, Load
    PROVE  Covered'
<1>1. UNCHANGED <<files, edits>> /\ records' = load_selected_files(refresh.selected, unread')
      /\ stamps' = refresh.stamps /\ refresh' = Idle
  BY Zenon DEF Load, Answer
<1>2. FilesTyped'  BY <1>1, FilesStay, Zenon DEF Covered
<1>3. Taken(refresh.stamps) /\ Chosen(refresh.stamps) = refresh.selected
  BY Zenon DEF Covered, RefreshOK, Load
<1>4. PICK S, U : S = refresh.stamps /\ U = unread'  OBVIOUS
<1>5. Taken(S)' /\ Held(S, U)' = Held(S, U)  BY <1>1, <1>3, <1>4, FilesStay, Zenon DEF Covered
<1>6. records' = Held(S, U)'  BY <1>1, <1>3, <1>4, <1>5, LoadIsHeld, Zenon
<1>7. Taken(stamps)' /\ records' = Held(stamps, unread)'
  <2>1. S = stamps' /\ U = unread'  BY <1>1, <1>4
  <2> QED  BY <1>5, <1>6, <2>1 DEF Taken, Held
<1>8. RefreshOK'
  <2>1. refresh' \in Refreshes /\ refresh'.at # "load"  BY <1>1 DEF Idle, Refreshes
  <2> QED  BY <2>1 DEF RefreshOK
<1> QED  BY <1>2, <1>7, <1>8, Zenon DEF Covered

(* invalidate_system forgets the records and their stamps together.        *)
LEMMA InvalidateStep ==
    ASSUME Covered, invalidate_system
    PROVE  Covered'
<1>1. UNCHANGED <<files, edits>> /\ refresh' = refresh /\ records' = {} /\ stamps' = {}
  BY Zenon DEF invalidate_system
<1>2. FilesTyped'  BY <1>1, FilesStay, Zenon DEF Covered
<1>3. Taken(stamps)' /\ Held(stamps, unread)' = {}  BY <1>1, Zenon DEF Taken, Held
<1>4. RefreshOK'  BY <1>1, RefreshStays DEF Covered
<1> QED  BY <1>1, <1>2, <1>3, <1>4 DEF Covered

(* The other steps leave the files, the records and the refresh.           *)
LEMMA OtherStep ==
    ASSUME Covered, UNCHANGED <<files, edits, records, unread, stamps, refresh>>
    PROVE  Covered'
<1>1. FilesTyped'  BY FilesStay, Zenon DEF Covered
<1>2. RefreshOK'  BY RefreshStays DEF Covered
<1> QED  BY <1>1, <1>2, StampsStay DEF Covered

(* An edit of /etc/hosts takes a stamp that no *.rr file has.              *)
LEMMA HostsEdited ==
    ASSUME FilesTyped, LocalConstants, EditHosts
    PROVE  /\ FilesTyped' /\ UNCHANGED <<files, records, unread, stamps, refresh>>
           /\ edits \in Nat /\ edits' = edits + 1
<1>1. UNCHANGED <<files, records, unread, stamps, refresh>>  BY Zenon DEF EditHosts, static
<1>2. edits \in 0 .. MaxEdits /\ edits < MaxEdits /\ edits' = edits + 1  BY Zenon DEF EditHosts, FilesTyped
<1>3. edits \in Nat /\ edits' \in 0 .. MaxEdits /\ \A n : n \in 1 .. edits => n \in 1 .. edits'
  BY <1>2 DEF LocalConstants
<1>4. FilesTyped'  BY <1>1, <1>3, Zenon DEF FilesTyped
<1> QED  BY <1>1, <1>2, <1>3, <1>4, Zenon

(* Later edits elsewhere leave every stamp one of the edits made so far.   *)
LEMMA LaterStep ==
    ASSUME Covered, FilesTyped', UNCHANGED <<files, records, unread, stamps, refresh>>,
           edits \in Nat, edits' = edits + 1
    PROVE  Covered'
<1>1. \A n : n \in 1 .. edits => n \in 1 .. edits'  OBVIOUS
<1>2. ASSUME NEW S, Taken(S) PROVE Taken(S)'  BY <1>1, <1>2, Zenon DEF Taken
<1>3. Taken(stamps)'
  <2>1. PICK S : S = stamps /\ S = stamps'  OBVIOUS
  <2>2. Taken(S)'  BY <1>2, <2>1, Zenon DEF Covered
  <2> QED  BY <2>1, <2>2 DEF Taken
<1>4. RefreshOK'
  <2>1. ASSUME refresh.at = "load" PROVE Taken(refresh.stamps)'
    <3>1. PICK S : S = refresh.stamps /\ S = refresh'.stamps  OBVIOUS
    <3>2. Taken(S)'  BY <1>2, <2>1, <3>1, Zenon DEF Covered, RefreshOK
    <3> QED  BY <3>1, <3>2 DEF Taken
  <2> QED  BY <2>1, Zenon DEF Covered, RefreshOK, Chosen
<1>5. Current(stamps)' => records' = Held(stamps, unread)'  BY Zenon DEF Covered, Current, Held
<1> QED  BY <1>3, <1>4, <1>5, Zenon DEF Covered

-----------------------------------------------------------------------------
(* The invariant holds throughout.                                         *)
LEMMA CoveredAlways == ASSUME LocalConstants PROVE Spec => []Covered
<1>1. Init => Covered
  <2> SUFFICES ASSUME Init PROVE Covered  OBVIOUS
  <2>1. FilesTyped
    <3>1. Absent \in [masked : BOOLEAN, body : {{}} \cup Bodies, modified : Nat]  BY DEF Absent
    <3>2. files \in [Places -> [masked : BOOLEAN, body : {{}} \cup Bodies, modified : Nat]]
      BY <3>1, Zenon DEF Init
    <3>3. \A p \in Places : files[p] = Absent  BY Zenon DEF Init
    <3>4. edits \in 0 .. MaxEdits  BY DEF Init, LocalConstants
    <3> QED  BY <3>2, <3>3, <3>4, Zenon DEF FilesTyped
  <2>2. RefreshOK
    <3>1. refresh \in Refreshes /\ refresh.at # "load"  BY DEF Init, Idle, Refreshes
    <3> QED  BY <3>1 DEF RefreshOK
  <2>3. Taken(stamps) /\ records = Held(stamps, unread)  BY DEF Init, Taken, Held
  <2> QED  BY <2>1, <2>2, <2>3 DEF Covered
<1>2. Covered /\ [Next]_vars => Covered'
  <2> SUFFICES ASSUME Covered, [Next]_vars PROVE Covered'  OBVIOUS
  <2>1. ASSUME NEW p \in Places, Edit(p) PROVE Covered'  BY <2>1, EditStep
  <2>2. CASE EditHosts
    <3>1. /\ FilesTyped' /\ UNCHANGED <<files, records, unread, stamps, refresh>>
          /\ edits \in Nat /\ edits' = edits + 1
      BY <2>2, HostsEdited DEF Covered
    <3> QED  BY <3>1, LaterStep
  <2>3. CASE StartRefresh  BY <2>3, StartStep
  <2>4. CASE Stamp  BY <2>4, StampStep
  <2>5. CASE Load  BY <2>5, LoadStep
  <2>6. CASE invalidate_system  BY <2>6, InvalidateStep
  <2>7. ASSUME NEW n, Ask(n) PROVE Covered'
    <3>1. UNCHANGED <<files, edits, records, unread, stamps, refresh>>  BY <2>7, Zenon DEF Ask, static
    <3> QED  BY <3>1, OtherStep
  <2>8. CASE LookInHosts \/ Elapse \/ Hangup \/ ReadHosts \/ SetHosts \/ UNCHANGED vars
    <3>1. UNCHANGED <<files, edits, records, unread, stamps, refresh>>
      BY <2>8, Zenon DEF LookInHosts, Elapse, Hangup, ReadHosts, SetHosts, static, vars
    <3> QED  BY <3>1, OtherStep
  <2> QED  BY <2>1, <2>2, <2>3, <2>4, <2>5, <2>6, <2>7, <2>8, Zenon DEF Next, Reload, QueryStep
<1> QED  BY <1>1, <1>2, PTL DEF Spec

(* The fingerprint of the static records (static_records.rs,               *)
(* refresh_if_due): a fingerprint that equals the files' is proof that the *)
(* records are theirs, for any number of files, edits, faults and reloads, *)
(* but for the files that could not be read when they were loaded: of      *)
(* these read_json_file adds nothing, and the fingerprint is kept.         *)
THEOREM FingerprintProvesRecords == ASSUME LocalConstants PROVE Spec => []StampsCoverRecords
<1>1. Covered => StampsCoverRecords
  <2> SUFFICES ASSUME Covered, stamps = fingerprint(select_files)
               PROVE  records = load_selected_files(select_files, unread)
    BY DEF StampsCoverRecords
  <2>1. Chosen(stamps) = select_files /\ Current(stamps)
    BY SelectionTyped, FingerprintIsCurrent DEF Covered
  <2>2. records = Held(stamps, unread)  BY <2>1, Zenon DEF Covered
  <2> QED  BY <2>1, <2>2, LoadIsHeld, Zenon
<1> QED  BY <1>1, CoveredAlways, PTL

(* A refresh that finds its files' stamps the old ones and reads nothing.  *)
Skipping ==
    refresh.at = "stamp" /\ refresh'.at = "idle" /\ fingerprint(refresh.selected) = stamps

SkipIsSound ==
    [][Skipping => records' = load_selected_files(refresh.selected, unread)]_vars

(* A refresh that stamps its files and then skips the load: the records it *)
(* keeps are what a load of the selected files would give, also when these *)
(* were written between their selection and their stamp, as long as it     *)
(* cannot read the files that the load before it could not read either.    *)
(* A file that has become readable meanwhile is what the skip loses.       *)
THEOREM SkippedLoadsLoseNothing == ASSUME LocalConstants PROVE Spec => SkipIsSound
<1>1. Covered /\ [Next]_vars =>
        [Skipping => records' = load_selected_files(refresh.selected, unread)]_vars
  <2> SUFFICES ASSUME Covered, [Next]_vars, refresh.at = "stamp", refresh'.at = "idle",
                      fingerprint(refresh.selected) = stamps
               PROVE  records' = load_selected_files(refresh.selected, unread)
    BY Zenon DEF Skipping
  <2>1. CASE Stamp
    <3>1. PICK C : C = refresh.selected  OBVIOUS
    <3>2. C \subseteq Selections  BY <3>1 DEF Covered, RefreshOK, Refreshes
    <3>3. fingerprint(C) = stamps /\ records' = records  BY <2>1, <3>1, Zenon DEF Stamp
    <3>4. Chosen(stamps) = C /\ Current(stamps)  BY <3>2, <3>3, FingerprintIsCurrent DEF Covered
    <3>5. records = Held(stamps, unread)  BY <3>4, Zenon DEF Covered
    <3> QED  BY <3>1, <3>3, <3>4, <3>5, LoadIsHeld, Zenon
  <2>2. ASSUME ~Stamp PROVE refresh' = refresh
    <3>1. refresh.at # "idle" /\ refresh.at # "load"  OBVIOUS
    <3>2. ~StartRefresh /\ ~Load /\ ~invalidate_system  BY <3>1, Zenon DEF StartRefresh, Load, invalidate_system
    <3> QED  BY <2>2, <3>2, Zenon DEF Next, QueryStep, Reload, Edit, EditHosts, Elapse, Hangup, ReadHosts,
                SetHosts, Ask, LookInHosts, static, vars
  <2>3. CASE ~Stamp  BY <2>2, <2>3
  <2> QED  BY <2>1, <2>3
<1> QED  BY <1>1, CoveredAlways, PTL DEF Spec, SkipIsSound
=============================================================================
