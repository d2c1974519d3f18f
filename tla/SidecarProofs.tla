--------------------------- MODULE SidecarProofs ----------------------------
(***************************************************************************)
(* The sidecars stay whole and honest for any number of processes, places, *)
(* versions of the source and restarts.  What concerns stamps is under the *)
(* condition that the stamp tells the versions apart (size, mtime and a    *)
(* hash of the head, collections/indexing/tar_index.py).                   *)
(***************************************************************************)
EXTENDS Sidecar, WellFoundedInduction, TLAPS

StampsDiffer == \A v, w \in Versions : StampOf[v] = StampOf[w] => v = w

Stages == {"down", "clear", "stamp", "find", "load", "scan", "try", "write", "replace",
           "find again", "open", "serving", "vanished", "unwritable"}

SidecarTypes ==
    /\ stamped \in BOOLEAN
    /\ version \in Versions
    /\ writable \subseteq Places
    /\ DOMAIN sidecar = Places
    /\ DOMAIN temp = Processes
    /\ pc \in [Processes -> Stages]
    /\ taken \in [Processes -> 0..MaxVersions]
    /\ place \in [Processes -> 0..Candidates]
    /\ index \in [Processes -> 0..MaxVersions]
    /\ file \in [Processes -> 0..MaxVersions]
    /\ disturbed \in [Processes -> SUBSET {"forced", "replaced"}]

\* A complete sidecar that was stamped before its index was made.
Sound(f) ==
    \E s \in 0..MaxVersions, v \in Versions :
        /\ f = Complete(s, v)
        /\ s <= v /\ v <= version
        /\ stamped => s \in Versions

SidecarsAreSound == \A c \in Places : Exists(c) => Sound(sidecar[c])

\* The stamp is taken before the index is made, and both are of the past.
Building(p) ==
    /\ taken[p] <= version
    /\ pc[p] = "stamp" => stamped
    /\ pc[p] = "find again" => ~stamped
    /\ stamped /\ pc[p] \in {"find", "load", "scan", "try", "write", "replace"} =>
            taken[p] \in Versions
    /\ pc[p] \in {"try", "write", "replace"} =>
            index[p] \in Versions /\ taken[p] <= index[p] /\ index[p] <= version
    /\ pc[p] = "replace" => temp[p] = Complete(IF stamped THEN taken[p] ELSE 0, index[p])

\* Where a process reads or writes there is a place.
Placed(p) == pc[p] \in {"load", "write", "replace", "find again"} => place[p] \in Places

\* While the source was not replaced, what a process knows of it is current, if it can
\* see from the stamp which version that is.
Current(p) ==
    StampsDiffer /\ stamped /\ "replaced" \notin disturbed[p] =>
        /\ pc[p] \in {"find", "load", "scan", "try", "write", "replace"} => taken[p] = version
        /\ pc[p] \in {"try", "write", "replace", "open"} => index[p] = version
        /\ pc[p] = "serving" => index[p] = file[p]

\* While nobody forced a rebuild, what was found is still there.
Undeleted(p) ==
    "forced" \notin disturbed[p] =>
        /\ pc[p] \in {"load", "find again"} => Exists(place[p])
        /\ pc[p] # "vanished"

SInv ==
    /\ SidecarTypes
    /\ SidecarsAreSound
    /\ \A p \in Processes : Building(p) /\ Placed(p) /\ Current(p) /\ Undeleted(p)

-----------------------------------------------------------------------------
LEMMA CompleteIsWhole ==
    ASSUME NEW s, NEW v
    PROVE  /\ Complete(s, v) # Absent /\ Complete(s, v).whole
           /\ Complete(s, v).stamp = s /\ Complete(s, v).index = v
<1>1. DOMAIN Complete(s, v) = {"stamp", "index", "whole"}
  BY DEF Complete
<1>2. DOMAIN Absent = {"none"}
  BY DEF Absent
<1>3. Complete(s, v) # Absent
  BY <1>1, <1>2
<1> QED  BY <1>3 DEF Complete

LEMMA NoPlaceIsNoPlace == NoPlace \notin Places
  BY DEF NoPlace, Places

\* find_existing_sidecar finds a sidecar when there is one.
LEMMA FindsExisting ==
    ASSUME NEW c \in Places, Exists(c)
    PROVE  Existing \in Places /\ Exists(Existing)
<1> DEFINE Present == {d \in Places : Exists(d)}
<1>1. Present \subseteq Nat /\ Present # {}
  BY SidecarAssumption DEF Places
<1>2. PICK d \in Present : \A e \in Present : <<e, d>> \notin OpToRel(<, Nat)
  BY <1>1, NatLessThanWellFounded, WFMin
<1>3. \A e \in Present : ~(e < d)
  BY <1>1, <1>2 DEF OpToRel
<1>4. \A e \in Places : Exists(e) => d <= e
  BY <1>3, SidecarAssumption DEF Places
<1> QED  BY <1>4 DEF Existing

LEMMA ExistingIsPlace ==
    /\ Existing \in 0..Candidates
    /\ Existing # NoPlace => Existing \in Places /\ Exists(Existing)
<1>1. CASE \E c \in Places : Exists(c)
  BY <1>1, FindsExisting, SidecarAssumption DEF Places
<1>2. CASE ~ \E c \in Places : Exists(c)
  BY <1>2, SidecarAssumption DEF Existing, NoPlace
<1> QED  BY <1>1, <1>2

Fine(p) == Building(p) /\ Placed(p) /\ Current(p) /\ Undeleted(p)

\* A step of p in its own memory and its own temporary file.
Private(p) ==
    /\ UNCHANGED <<stamped, version, writable, sidecar, disturbed>>
    /\ \A q \in Processes \ {p} :
        UNCHANGED <<pc[q], taken[q], place[q], index[q], file[q], temp[q]>>

LEMMA PrivateSInv ==
    ASSUME SInv, NEW p \in Processes, Private(p), SidecarTypes', Fine(p)'
    PROVE  SInv'
<1>1. SidecarsAreSound'
  BY DEF SInv, SidecarsAreSound, Sound, Exists, Private
<1>2. ASSUME NEW q \in Processes, q # p PROVE Fine(q)'
  BY <1>2 DEF SInv, Fine, Building, Placed, Current, Undeleted, Exists, Private
<1> QED  BY <1>1, <1>2 DEF SInv, Fine

LEMMA Ranges ==
    ASSUME SidecarTypes
    PROVE  /\ version \in 0..MaxVersions /\ version \in Nat
           /\ 0 \in 0..MaxVersions /\ NoPlace \in 0..Candidates
           /\ \A s : Absent # Complete(s, version)
  BY SidecarAssumption, CompleteIsWhole DEF SidecarTypes, Versions, NoPlace

LEMMA InitSInv == ASSUME Init PROVE SInv
<1> USE SidecarAssumption DEF Versions, Places, NoPlace
<1>1. SidecarTypes
  BY DEF Init, SidecarTypes, Stages
<1>2. SidecarsAreSound
  BY DEF Init, SidecarsAreSound, Sound, Exists
<1> QED  BY <1>1, <1>2 DEF Init, SInv, Building, Placed, Current, Undeleted

LEMMA StartSInv == ASSUME SInv, NEW p \in Processes, Start(p) PROVE SInv'
<1> USE SidecarAssumption DEF Versions, Places, NoPlace
<1>1. PICK s \in {First, "clear"} : pc' = [pc EXCEPT ![p] = s]
  BY DEF Start, Goto
<1>2. SidecarTypes'
  BY <1>1 DEF Start, SInv, SidecarTypes, Stages, First
<1>3. SidecarsAreSound'
  BY DEF Start, SInv, SidecarsAreSound, Sound, Exists
<1>4. ASSUME NEW q \in Processes PROVE Building(q)' /\ Placed(q)' /\ Undeleted(q)'
  BY <1>1 DEF Start, SInv, SidecarTypes, First, Building, Placed, Undeleted, Exists
<1>5. ASSUME NEW q \in Processes PROVE Current(q)'
  BY <1>1 DEF Start, SInv, SidecarTypes, First, Building, Current
<1> QED  BY <1>2, <1>3, <1>4, <1>5 DEF SInv

\* Force deletes sidecars under everybody else.
LEMMA ClearSInv == ASSUME SInv, NEW p \in Processes, Clear(p) PROVE SInv'
<1> USE SidecarAssumption DEF Versions, Places, NoPlace
<1>1. CASE place[p] = Candidates
  <2>1. SidecarTypes'
    BY <1>1 DEF Clear, Goto, SInv, SidecarTypes, Stages, First
  <2>2. Private(p)
    BY <1>1 DEF Clear, Goto, Private, SInv, SidecarTypes
  <2>3. Fine(p)'
    BY <1>1 DEF Clear, Goto, First, SInv, SidecarTypes, Fine, Building, Placed, Current, Undeleted
  <2> QED  BY <2>1, <2>2, <2>3, PrivateSInv
<1>2. CASE place[p] # Candidates
  <2>1. /\ place' = [place EXCEPT ![p] = @ + 1]
        /\ DOMAIN sidecar' = Places
        /\ \A c \in Places : sidecar'[c] = Absent \/ sidecar'[c] = sidecar[c]
        /\ disturbed' = [q \in Processes |->
                            disturbed[q] \cup IF q \in Processes \ {p} THEN {"forced"} ELSE {}]
        /\ UNCHANGED <<pc, stamped, version, writable, temp, taken, index, file, starts>>
        /\ pc[p] = "clear"
    BY <1>2 DEF Clear, Disturb
  <2>2. SidecarTypes'
    BY <1>2, <2>1 DEF SInv, SidecarTypes
  <2>3. SidecarsAreSound'
    BY <2>1 DEF SInv, SidecarsAreSound, Sound, Exists
  <2>4. ASSUME NEW q \in Processes PROVE Building(q)' /\ Placed(q)' /\ Current(q)'
    BY <2>1 DEF SInv, SidecarTypes, Building, Placed, Current
  <2>5. ASSUME NEW q \in Processes PROVE Undeleted(q)'
    BY <2>1 DEF SInv, Undeleted
  <2> QED  BY <2>2, <2>3, <2>4, <2>5 DEF SInv
<1> QED  BY <1>1, <1>2

LEMMA TakeStampSInv == ASSUME SInv, NEW p \in Processes, TakeStamp(p) PROVE SInv'
<1>1. SidecarTypes'
  BY Ranges DEF TakeStamp, Goto, SInv, SidecarTypes, Stages
<1>2. Private(p)
  BY DEF TakeStamp, Goto, Private, SInv, SidecarTypes
<1>3. Fine(p)'
  <2>1. /\ pc'[p] = "find" /\ taken'[p] = version
        /\ UNCHANGED <<version, stamped>>
        /\ version \in Versions /\ version <= version
    BY Ranges DEF TakeStamp, Goto, SInv, SidecarTypes
  <2> QED  BY <2>1 DEF Fine, Building, Placed, Current, Undeleted
<1> QED  BY <1>1, <1>2, <1>3, PrivateSInv

\* Find, and OffsetFile's second look.
LEMMA FindSInv == ASSUME SInv, NEW p \in Processes, Find(p) \/ FindAgain(p) PROVE SInv'
<1> USE SidecarAssumption DEF Versions, Places, NoPlace
<1>1. /\ place' = [place EXCEPT ![p] = Existing]
      /\ pc[p] \in {"find", "find again"}
      /\ pc' = [pc EXCEPT ![p] = IF Existing # NoPlace THEN "load"
                                 ELSE IF pc[p] = "find" THEN "scan" ELSE "vanished"]
      /\ UNCHANGED <<stamped, version, writable, sidecar, temp, taken, index, file, disturbed>>
  BY DEF Find, FindAgain, Goto
<1>2. SidecarTypes'
  BY <1>1, ExistingIsPlace DEF SInv, SidecarTypes, Stages
<1>3. Private(p)
  BY <1>1 DEF Private, SInv, SidecarTypes
<1>4. Building(p)' /\ Placed(p)' /\ Current(p)'
  BY <1>1, ExistingIsPlace DEF SInv, SidecarTypes, Building, Placed, Current
<1>5. pc[p] = "find again" /\ "forced" \notin disturbed[p] => Existing # NoPlace
  <2> SUFFICES ASSUME pc[p] = "find again", "forced" \notin disturbed[p]
               PROVE  Existing # NoPlace
    OBVIOUS
  <2>1. place[p] \in Places /\ Exists(place[p])
    BY DEF SInv, Placed, Undeleted
  <2>2. Existing \in Places
    BY <2>1, FindsExisting
  <2> QED  BY <2>2, NoPlaceIsNoPlace
<1>6. Existing # NoPlace => Exists(Existing)
  BY ExistingIsPlace
<1>7. Undeleted(p)'
  BY <1>1, <1>5, <1>6 DEF SInv, SidecarTypes, Undeleted, Exists
<1> QED  BY <1>2, <1>3, <1>4, <1>7, PrivateSInv DEF Fine

\* What is loaded as fresh was indexed from the version whose stamp was taken.
LEMMA LoadSInv ==
    ASSUME SInv, NEW p \in Processes, Load(p)
    PROVE  SInv'
<1> USE SidecarAssumption DEF Versions, Places, NoPlace
<1>1. place[p] \in Places /\ Exists(place[p]) /\ Sound(sidecar[place[p]])
  BY DEF Load, Readable, SInv, Placed, SidecarsAreSound
<1>2. PICK s \in 0..MaxVersions, v \in Versions :
        /\ sidecar[place[p]] = Complete(s, v)
        /\ s <= v /\ v <= version
        /\ stamped => s \in Versions
  BY <1>1 DEF Sound
<1>3. index' = [index EXCEPT ![p] = v]
  <2>1. sidecar[place[p]].index = v
    BY <1>2, CompleteIsWhole
  <2> QED  BY <2>1 DEF Load
<1>4. StampsDiffer /\ stamped => s = taken[p]
  <2>1. sidecar[place[p]].stamp = s
    BY <1>2, CompleteIsWhole
  <2>2. stamped => taken[p] \in Versions /\ StampOf[s] = StampOf[taken[p]]
    BY <2>1 DEF Load, Fresh, SInv, Building
  <2> QED  BY <1>2, <2>2 DEF StampsDiffer
<1>5. SidecarTypes'
  <2>1. v \in 0..MaxVersions
    OBVIOUS
  <2>2. index' \in [Processes -> 0..MaxVersions]
    BY <1>3, <2>1 DEF SInv, SidecarTypes
  <2>3. pc' \in [Processes -> Stages]
    BY DEF Load, Goto, SInv, SidecarTypes, Stages
  <2> QED  BY <2>2, <2>3 DEF Load, SInv, SidecarTypes
<1>6. Private(p)
  BY <1>3 DEF Load, Goto, Private, SInv, SidecarTypes
<1>7. Building(p)' /\ Placed(p)' /\ Undeleted(p)'
  BY DEF Load, Goto, SInv, SidecarTypes, Building, Placed, Undeleted
<1>8. Current(p)'
  BY <1>2, <1>3, <1>4 DEF Load, Goto, SInv, SidecarTypes, Current
<1> QED  BY <1>5, <1>6, <1>7, <1>8, PrivateSInv DEF Fine

LEMMA LoadFailsSInv == ASSUME SInv, NEW p \in Processes, LoadFails(p) PROVE SInv'
<1> USE SidecarAssumption DEF Versions, Places, NoPlace
<1>1. SidecarTypes'
  BY DEF LoadFails, Goto, SInv, SidecarTypes, Stages
<1>2. Private(p)
  BY DEF LoadFails, Goto, Private, SInv, SidecarTypes
<1>3. Building(p)' /\ Placed(p)' /\ Current(p)'
  BY DEF LoadFails, Goto, SInv, SidecarTypes, Building, Placed, Current
<1>4. ~stamped => "forced" \in disturbed[p]
  <2> SUFFICES ASSUME "forced" \notin disturbed[p] PROVE stamped
    OBVIOUS
  <2>1. Exists(place[p]) /\ place[p] \in Places
    BY DEF LoadFails, SInv, Undeleted, Placed
  <2>2. Readable(p)
    BY <2>1, CompleteIsWhole DEF SInv, SidecarsAreSound, Sound, Readable
  <2> QED  BY <2>2 DEF LoadFails
<1>5. Undeleted(p)'
  BY <1>4 DEF LoadFails, Goto, SInv, SidecarTypes, Undeleted
<1> QED  BY <1>1, <1>2, <1>3, <1>5, PrivateSInv DEF Fine

LEMMA ScanSInv == ASSUME SInv, NEW p \in Processes, Scan(p) PROVE SInv'
<1>1. SidecarTypes'
  BY Ranges DEF Scan, Goto, SInv, SidecarTypes, Stages
<1>2. Private(p)
  BY DEF Scan, Goto, Private, SInv, SidecarTypes
<1>3. Fine(p)'
  <2>1. /\ pc[p] = "scan" /\ pc'[p] = "try" /\ index'[p] = version
        /\ UNCHANGED <<version, stamped, taken, disturbed>>
        /\ version \in Versions /\ version <= version
    BY Ranges DEF Scan, Goto, SInv, SidecarTypes
  <2> QED  BY <2>1 DEF SInv, Fine, Building, Placed, Current, Undeleted
<1> QED  BY <1>1, <1>2, <1>3, PrivateSInv

LEMMA TryNextSInv == ASSUME SInv, NEW p \in Processes, TryNext(p) PROVE SInv'
<1> USE SidecarAssumption DEF Versions, Places, NoPlace, TempName
<1>1. \/ place[p] = Candidates /\ pc' = [pc EXCEPT ![p] = "unwritable"]
          /\ UNCHANGED <<place, temp>>
      \/ place[p] # Candidates /\ place' = [place EXCEPT ![p] = @ + 1]
          /\ \/ temp' = [temp EXCEPT ![p] = Partial] /\ pc' = [pc EXCEPT ![p] = "write"]
             \/ UNCHANGED <<temp, pc>>
  BY DEF TryNext, Goto
<1>2. SidecarTypes'
  <2>1. pc' \in [Processes -> Stages] /\ DOMAIN temp' = Processes
    BY <1>1 DEF SInv, SidecarTypes, Stages
  <2>2. place' \in [Processes -> 0..Candidates]
    <3>1. place[p] \in 0..Candidates /\ place \in [Processes -> 0..Candidates]
      BY DEF SInv, SidecarTypes
    <3>2. place[p] # Candidates => place[p] + 1 \in 0..Candidates
      BY <3>1, SidecarAssumption
    <3> QED  BY <1>1, <3>1, <3>2
  <2> QED  BY <2>1, <2>2 DEF TryNext, SInv, SidecarTypes
<1>3. Private(p)
  BY <1>1 DEF TryNext, Private, SInv, SidecarTypes
<1>4. Fine(p)'
  BY <1>1 DEF TryNext, SInv, SidecarTypes, Fine, Building, Placed, Current, Undeleted
<1> QED  BY <1>2, <1>3, <1>4, PrivateSInv

LEMMA WriteSInv == ASSUME SInv, NEW p \in Processes, Write(p) PROVE SInv'
<1> USE SidecarAssumption DEF Versions, Places, NoPlace, TempName
<1>1. SidecarTypes'
  BY DEF Write, Goto, SInv, SidecarTypes, Stages
<1>2. Private(p)
  BY DEF Write, Goto, Private, SInv, SidecarTypes
<1>3. Fine(p)'
  BY DEF Write, Goto, SInv, SidecarTypes, Fine, Building, Placed, Current, Undeleted
<1> QED  BY <1>1, <1>2, <1>3, PrivateSInv

\* A sidecar appears whole, in the place of whatever was there.
LEMMA ReplaceSInv == ASSUME SInv, NEW p \in Processes, Replace(p) PROVE SInv'
<1> USE SidecarAssumption DEF Versions, Places, NoPlace, TempName
<1> DEFINE new == Complete(IF stamped THEN taken[p] ELSE 0, index[p])
<1>1. /\ place[p] \in Places
      /\ sidecar' = [sidecar EXCEPT ![place[p]] = new]
      /\ temp' = [temp EXCEPT ![p] = Absent]
      /\ pc[p] = "replace"
      /\ pc' = [pc EXCEPT ![p] = IF stamped THEN "open" ELSE "find again"]
      /\ UNCHANGED <<stamped, version, writable, taken, place, index, file, disturbed>>
  BY DEF Replace, Goto, SInv, Building, Placed
<1>2. Sound(new)
  <2>1. index[p] \in Versions /\ taken[p] <= index[p] /\ index[p] <= version
    BY <1>1 DEF SInv, Building
  <2>2. CASE stamped
    BY <1>1, <2>1, <2>2 DEF SInv, SidecarTypes, Building, Sound
  <2>3. CASE ~stamped
    BY <2>1, <2>3 DEF Sound
  <2> QED  BY <2>2, <2>3
<1>3. SidecarTypes'
  BY <1>1 DEF SInv, SidecarTypes, Stages
<1>4. \A c \in Places : sidecar'[c] = sidecar[c] \/ sidecar'[c] = new
  BY <1>1 DEF SInv, SidecarTypes
<1>5. SidecarsAreSound'
  BY <1>1, <1>2, <1>4 DEF SInv, SidecarsAreSound, Sound, Exists
<1>6. ASSUME NEW q \in Processes PROVE Building(q)' /\ Placed(q)' /\ Current(q)'
  BY <1>1 DEF SInv, SidecarTypes, Building, Placed, Current
<1>7. \A c \in Places : Exists(c) => Exists(c)'
  BY <1>4, CompleteIsWhole DEF Exists
<1>8. Exists(place[p])'
  <2>1. sidecar'[place[p]] = new
    BY <1>1 DEF SInv, SidecarTypes
  <2>2. new # Absent
    BY CompleteIsWhole
  <2> QED  BY <1>1, <2>1, <2>2 DEF Exists
<1>9. ASSUME NEW q \in Processes PROVE Undeleted(q)'
  BY <1>1, <1>7, <1>8 DEF SInv, SidecarTypes, Undeleted, Placed, Exists
<1> QED  BY <1>3, <1>5, <1>6, <1>9 DEF SInv

LEMMA WriteFailsSInv == ASSUME SInv, NEW p \in Processes, WriteFails(p) PROVE SInv'
<1> USE SidecarAssumption DEF Versions, Places, NoPlace, TempName
<1>1. SidecarTypes'
  BY DEF WriteFails, Goto, SInv, SidecarTypes, Stages
<1>2. Private(p)
  BY DEF WriteFails, Goto, Private, SInv, SidecarTypes
<1>3. Fine(p)'
  BY DEF WriteFails, Goto, SInv, SidecarTypes, Fine, Building, Placed, Current, Undeleted
<1> QED  BY <1>1, <1>2, <1>3, PrivateSInv

LEMMA OpenSInv == ASSUME SInv, NEW p \in Processes, Open(p) PROVE SInv'
<1>1. SidecarTypes'
  BY Ranges DEF Open, Goto, SInv, SidecarTypes, Stages
<1>2. Private(p)
  BY DEF Open, Goto, Private, SInv, SidecarTypes
<1>3. Fine(p)'
  BY DEF Open, Goto, SInv, SidecarTypes, Fine, Building, Placed, Current, Undeleted
<1> QED  BY <1>1, <1>2, <1>3, PrivateSInv

LEMMA StopSInv == ASSUME SInv, NEW p \in Processes, Stop(p) PROVE SInv'
<1>1. SidecarTypes'
  BY Ranges DEF Stop, Goto, SInv, SidecarTypes, Stages
<1>2. Private(p)
  BY DEF Stop, Goto, TempName, Private, SInv, SidecarTypes
<1>3. Fine(p)'
  <2>1. /\ pc'[p] = "down" /\ taken'[p] = 0
        /\ UNCHANGED version
    BY DEF Stop, Goto, SInv, SidecarTypes
  <2>2. 0 <= version'
    BY <2>1, Ranges DEF SInv
  <2> QED  BY <2>1, <2>2 DEF Fine, Building, Placed, Current, Undeleted
<1> QED  BY <1>1, <1>2, <1>3, PrivateSInv

LEMMA NewVersionSInv == ASSUME SInv, NewVersion PROVE SInv'
<1> USE SidecarAssumption DEF Versions, Places, NoPlace
<1>1. SidecarTypes'
  BY DEF NewVersion, SInv, SidecarTypes
<1>2. version' \in Versions /\ version < version' /\ UNCHANGED <<stamped, sidecar>>
  BY DEF NewVersion, SInv, SidecarTypes
<1>3. ASSUME NEW f, Sound(f) PROVE Sound(f)'
  BY <1>2, <1>3 DEF Sound, SInv, SidecarTypes
<1>4. SidecarsAreSound'
  BY <1>2, <1>3 DEF SInv, SidecarsAreSound, Exists
<1>5. ASSUME NEW p \in Processes PROVE Building(p)' /\ Placed(p)' /\ Undeleted(p)'
  <2>0. taken[p] \in Nat /\ index[p] \in Nat /\ version \in Nat /\ version' \in Nat
    BY <1>2 DEF SInv, SidecarTypes
  <2>a. \A n \in Nat : n <= version => n <= version'
    BY <1>2, <2>0
  <2>1. taken[p] <= version'
    BY <2>a, <2>0 DEF SInv, Building
  <2>2. pc[p] \in {"try", "write", "replace"} => index[p] <= version'
    BY <2>a, <2>0 DEF SInv, Building
  <2>3. UNCHANGED <<stamped, sidecar, temp, pc, taken, place, index>>
    BY DEF NewVersion
  <2>4. Building(p)'
    BY <2>1, <2>2, <2>3 DEF SInv, Building
  <2>5. Placed(p)'
    BY <2>3 DEF SInv, Placed
  <2>6. Undeleted(p)'
    BY <2>3 DEF NewVersion, SInv, Undeleted, Exists
  <2> QED  BY <2>4, <2>5, <2>6
<1>6. ASSUME NEW p \in Processes PROVE Current(p)'
  BY DEF NewVersion, SInv, SidecarTypes, Current
<1> QED  BY <1>1, <1>4, <1>5, <1>6 DEF SInv

LEMMA NextSInv == ASSUME SInv, [Next]_vars PROVE SInv'
<1>1. CASE UNCHANGED vars
  BY <1>1 DEF vars, SInv, SidecarTypes, SidecarsAreSound, Sound, Exists, Building, Placed,
              Current, Undeleted
<1> QED
  BY <1>1, NewVersionSInv, StartSInv, ClearSInv, TakeStampSInv, FindSInv, LoadSInv,
     LoadFailsSInv, ScanSInv, TryNextSInv, WriteSInv, ReplaceSInv, WriteFailsSInv,
     OpenSInv, StopSInv
     DEF Next

\* What is in a sidecar, what a process has read from it and how far it is with a new one
\* fit together, whatever the processes do and whenever they are killed (build_or_load_taridx
\* in collections/indexing/tar_index.py, offset_file.py, sidecar.py).
THEOREM SidecarInvariance == Spec => []SInv
<1>1. Init => SInv
  BY InitSInv
<1>2. SInv /\ [Next]_vars => SInv'
  BY NextSInv
<1> QED  BY <1>1, <1>2, PTL DEF Spec

\* No reader ever finds half a sidecar: writers put it together under a name of their own
\* and replace the old one (atomic_write_sidecar).
THEOREM SidecarsStayWhole == Spec => []SidecarsAreWhole
<1>1. SInv => SidecarsAreWhole
  BY CompleteIsWhole DEF SInv, SidecarsAreSound, Sound, SidecarsAreWhole
<1> QED  BY <1>1, SidecarInvariance, PTL

\* A .taridx with the stamp of the source is an index of this source: the stamp is taken
\* before the scan, so it can be too old and never too new (build_or_load_taridx).
THEOREM StampsStayHonest ==
    ASSUME StampsDiffer
    PROVE  Spec => []StampsAreHonest
<1>1. SInv => StampsAreHonest
  <2> SUFFICES ASSUME SInv, NEW c \in Places, stamped, Exists(c),
                      StampOf[sidecar[c].stamp] = StampOf[version]
               PROVE  sidecar[c].index = version
    BY DEF StampsAreHonest
  <2>1. PICK s \in 0..MaxVersions, v \in Versions :
          /\ sidecar[c] = Complete(s, v)
          /\ s <= v /\ v <= version
          /\ s \in Versions
    BY DEF SInv, SidecarsAreSound, Sound
  <2>2. sidecar[c].stamp = s /\ sidecar[c].index = v
    BY <2>1, CompleteIsWhole
  <2>3. s = version
    BY <2>1, <2>2 DEF StampsDiffer, SInv, SidecarTypes
  <2> QED  BY <2>1, <2>2, <2>3, Ranges, SidecarAssumption DEF SInv, Versions
<1> QED  BY <1>1, SidecarInvariance, PTL

\* A server reads a tar with the offsets of the file it has open, if the file was not
\* replaced while it started (views/tar.py).
THEOREM IndexStaysFitting ==
    ASSUME StampsDiffer
    PROVE  Spec => []IndexFitsFile
<1>1. SInv => IndexFitsFile
  BY DEF SInv, Current, IndexFitsFile
<1> QED  BY <1>1, SidecarInvariance, PTL

\* A sidecar that was there is found gone only under a forced rebuild (OffsetFile).
THEOREM ForceAloneVanishes == Spec => []OnlyForceVanishes
<1>1. SInv => OnlyForceVanishes
  BY DEF SInv, Undeleted, OnlyForceVanishes
<1> QED  BY <1>1, SidecarInvariance, PTL
=============================================================================
