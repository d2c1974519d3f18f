------------------------------ MODULE Sidecar ------------------------------
(***************************************************************************)
(* collections/indexing: the index of a source file is kept in a sidecar,  *)
(* at the first of several places that can be written.  tar_index.py puts  *)
(* a stamp of the source into the sidecar (.taridx), offset_file.py does   *)
(* not (.offsetmap); both write it with sidecar.py.  views/tar.py and      *)
(* OffsetFile then open the source for reading.                            *)
(*                                                                         *)
(* Several processes do this at once, may be killed between any two        *)
(* accesses to the file system, and start again; the source file may be    *)
(* replaced at any time.  An index is named by the version of the source   *)
(* it was built from.                                                      *)
(***************************************************************************)
EXTENDS Naturals

CONSTANTS
    Processes,
    Candidates,     \* number of places a sidecar can be in, 1 comes first
    StampOf,        \* (size, mtime, hash of the head) of each version
    MaxVersions,    \* bound: versions of the source
    MaxStarts       \* bound: process starts

Versions == 1..MaxVersions
Places == 1..Candidates
NoPlace == 0

ASSUME SidecarAssumption ==
    /\ Candidates \in Nat
    /\ MaxVersions \in Nat \ {0}
    /\ MaxStarts \in Nat
    /\ DOMAIN StampOf = Versions

VARIABLES
    stamped,    \* the index is a .taridx and not an .offsetmap
    version,    \* the version of the source file
    writable,   \* the places with a directory this host can write
    sidecar,    \* what is at each place
    temp,       \* the temporary files, by their names
    pc,         \* what each process does next
    taken,      \* the version of the source when the process took its stamp
    place,      \* the place the process reads, or tries to write
    index,      \* the index in its memory, 0 for none
    file,       \* the version it has open, 0 for none
    starts,     \* process starts so far
    disturbed   \* history: per process, what others did since it started

vars == <<stamped, version, writable, sidecar, temp, pc, taken, place, index, file, starts, disturbed>>

Absent == [none |-> TRUE]

\* A file just made, or not yet written to its end.
Partial == [stamp |-> 0, index |-> 0, whole |-> FALSE]

\* A complete sidecar, with the stamp of version s and an index of version v.
Complete(s, v) == [stamp |-> s, index |-> v, whole |-> TRUE]

\* Sidecars of the first version may be anywhere, from an earlier run or host.
Init ==
    /\ stamped \in BOOLEAN
    /\ version = 1
    /\ writable \in SUBSET Places
    /\ sidecar \in [Places -> {Absent, Complete(1, 1)}]
    /\ temp = [p \in Processes |-> Absent]
    /\ pc = [p \in Processes |-> "down"]
    /\ taken = [p \in Processes |-> 0]
    /\ place = [p \in Processes |-> NoPlace]
    /\ index = [p \in Processes |-> 0]
    /\ file = [p \in Processes |-> 0]
    /\ starts = 0
    /\ disturbed = [p \in Processes |-> {}]

-----------------------------------------------------------------------------
Exists(c) == sidecar[c] # Absent

\* find_existing_sidecar
Existing ==
    IF \E c \in Places : Exists(c)
    THEN CHOOSE c \in Places : Exists(c) /\ \A d \in Places : Exists(d) => c <= d
    ELSE NoPlace

Goto(p, s) == pc' = [pc EXCEPT ![p] = s]

Disturb(qs, what) ==
    disturbed' = [q \in Processes |-> disturbed[q] \cup IF q \in qs THEN {what} ELSE {}]

\* Where the work on the index begins.
First == IF stamped THEN "stamp" ELSE "find"

\* A process starts: a server at the first request for the file, or a command that
\* builds the sidecars, with force or without.
Start(p) ==
    /\ pc[p] = "down"
    /\ starts < MaxStarts
    /\ starts' = starts + 1
    /\ \E s \in {First, "clear"} : Goto(p, s)
    /\ disturbed' = [disturbed EXCEPT ![p] = {}]
    /\ UNCHANGED <<stamped, version, writable, sidecar, temp, taken, place, index, file>>

\* force: the sidecar at the next place is deleted, if it can be.
Clear(p) ==
    /\ pc[p] = "clear"
    /\ IF place[p] = Candidates
       THEN /\ Goto(p, First)
            /\ UNCHANGED <<place, sidecar, disturbed>>
       ELSE /\ place' = [place EXCEPT ![p] = @ + 1]
            /\ sidecar' = [c \in Places |-> IF c = place'[p] /\ c \in writable THEN Absent ELSE sidecar[c]]
            /\ Disturb(Processes \ {p}, "forced")
            /\ UNCHANGED pc
    /\ UNCHANGED <<stamped, version, writable, temp, taken, index, file, starts>>

\* _stamp
TakeStamp(p) ==
    /\ pc[p] = "stamp"
    /\ taken' = [taken EXCEPT ![p] = version]
    /\ Goto(p, "find")
    /\ UNCHANGED <<stamped, version, writable, sidecar, temp, place, index, file, starts, disturbed>>

Find(p) ==
    /\ pc[p] = "find"
    /\ place' = [place EXCEPT ![p] = Existing]
    /\ Goto(p, IF Existing = NoPlace THEN "scan" ELSE "load")
    /\ UNCHANGED <<stamped, version, writable, sidecar, temp, taken, index, file, starts, disturbed>>

\* Open and unpickle what was found, which may be gone by now.
Readable(p) == Exists(place[p]) /\ sidecar[place[p]].whole

\* Seeded fault for IndexFitsFile: whatever can be loaded is taken for fresh.
FreshIfReadable(p) == TRUE

\* The stamp in a .taridx is the one just taken.
Fresh(p) == StampOf[sidecar[place[p]].stamp] = StampOf[taken[p]]

Load(p) ==
    /\ pc[p] = "load"
    /\ Readable(p)
    /\ stamped => Fresh(p)
    /\ index' = [index EXCEPT ![p] = sidecar[place[p]].index]
    /\ Goto(p, "open")
    /\ UNCHANGED <<stamped, version, writable, sidecar, temp, taken, place, file, starts, disturbed>>

\* A .taridx that cannot be read, or is stale, is built again; an .offsetmap that
\* cannot be read raises.
LoadFails(p) ==
    /\ pc[p] = "load"
    /\ Readable(p) => stamped /\ ~Fresh(p)
    /\ Goto(p, IF stamped THEN "scan" ELSE "vanished")
    /\ UNCHANGED <<stamped, version, writable, sidecar, temp, taken, place, index, file, starts, disturbed>>

\* _build_index, create_offsetmap
Scan(p) ==
    /\ pc[p] = "scan"
    /\ index' = [index EXCEPT ![p] = version]
    /\ place' = [place EXCEPT ![p] = NoPlace]
    /\ Goto(p, "try")
    /\ UNCHANGED <<stamped, version, writable, sidecar, temp, taken, file, starts, disturbed>>

\* Seeded fault for SidecarsAreWhole: a fixed temporary name beside the target.
FixedTempName(p) == CHOOSE q \in Processes : TRUE

\* mkstemp: a name that no other process has.
TempName(p) == p

\* atomic_write_sidecar goes to the next candidate and makes a temporary file there,
\* or gives up when none is left.
TryNext(p) ==
    /\ pc[p] = "try"
    /\ IF place[p] = Candidates
       THEN Goto(p, "unwritable") /\ UNCHANGED <<place, temp>>
       ELSE /\ place' = [place EXCEPT ![p] = @ + 1]
            /\ IF place'[p] \in writable
               THEN temp' = [temp EXCEPT ![TempName(p)] = Partial] /\ Goto(p, "write")
               ELSE UNCHANGED <<temp, pc>>
    /\ UNCHANGED <<stamped, version, writable, sidecar, taken, index, file, starts, disturbed>>

\* Seeded fault for StampsAreHonest: the stamp is computed when it is written.
WriteStampsLate(p) ==
    /\ pc[p] = "write"
    /\ temp' = [temp EXCEPT ![TempName(p)] = Complete(IF stamped THEN version ELSE 0, index[p])]
    /\ Goto(p, "replace")
    /\ UNCHANGED <<stamped, version, writable, sidecar, taken, place, index, file, starts, disturbed>>

\* writer: the stamp and the index are written, and synced.
Write(p) ==
    /\ pc[p] = "write"
    /\ temp' = [temp EXCEPT ![TempName(p)] = Complete(IF stamped THEN taken[p] ELSE 0, index[p])]
    /\ Goto(p, "replace")
    /\ UNCHANGED <<stamped, version, writable, sidecar, taken, place, index, file, starts, disturbed>>

\* os.replace: the temporary file becomes the sidecar.
Replace(p) ==
    /\ pc[p] = "replace"
    /\ temp[TempName(p)] # Absent
    /\ sidecar' = [sidecar EXCEPT ![place[p]] = temp[TempName(p)]]
    /\ temp' = [temp EXCEPT ![TempName(p)] = Absent]
    /\ Goto(p, IF stamped THEN "open" ELSE "find again")
    /\ UNCHANGED <<stamped, version, writable, taken, place, index, file, starts, disturbed>>

\* The disk is full, say: the temporary file is removed, and the next place is tried.
WriteFails(p) ==
    /\ pc[p] \in {"write", "replace"}
    /\ temp' = [temp EXCEPT ![TempName(p)] = Absent]
    /\ Goto(p, "try")
    /\ UNCHANGED <<stamped, version, writable, sidecar, taken, place, index, file, starts, disturbed>>

\* OffsetFile looks for the sidecar it has written, and loads what it finds.
FindAgain(p) ==
    /\ pc[p] = "find again"
    /\ place' = [place EXCEPT ![p] = Existing]
    /\ Goto(p, IF Existing = NoPlace THEN "vanished" ELSE "load")
    /\ UNCHANGED <<stamped, version, writable, sidecar, temp, taken, index, file, starts, disturbed>>

\* The source is opened, for the life of the process.
Open(p) ==
    /\ pc[p] = "open"
    /\ file' = [file EXCEPT ![p] = version]
    /\ Goto(p, "serving")
    /\ UNCHANGED <<stamped, version, writable, sidecar, temp, taken, place, index, starts, disturbed>>

\* The process ends, at its own time or killed, and loses its memory.  The temporary
\* file it leaves behind has a name that nobody looks for or uses again.
Stop(p) ==
    /\ pc[p] # "down"
    /\ Goto(p, "down")
    /\ taken' = [taken EXCEPT ![p] = 0]
    /\ place' = [place EXCEPT ![p] = NoPlace]
    /\ index' = [index EXCEPT ![p] = 0]
    /\ file' = [file EXCEPT ![p] = 0]
    /\ temp' = [temp EXCEPT ![TempName(p)] = Absent]
    /\ UNCHANGED <<stamped, version, writable, sidecar, starts, disturbed>>

\* Somebody puts a new version of the source in its place.
NewVersion ==
    /\ version < MaxVersions
    /\ version' = version + 1
    /\ disturbed' = [q \in Processes |-> disturbed[q] \cup
                        IF pc[q] \in {"down", "serving"} THEN {} ELSE {"replaced"}]
    /\ UNCHANGED <<stamped, writable, sidecar, temp, pc, taken, place, index, file, starts>>

Next ==
    \/ NewVersion
    \/ \E p \in Processes :
        \/ Start(p) \/ Clear(p) \/ TakeStamp(p) \/ Find(p) \/ Load(p) \/ LoadFails(p)
        \/ Scan(p) \/ TryNext(p) \/ Write(p) \/ Replace(p) \/ WriteFails(p)
        \/ FindAgain(p) \/ Open(p) \/ Stop(p)

Spec == Init /\ [][Next]_vars

-----------------------------------------------------------------------------
\* No sidecar is ever incomplete where a reader looks, although writers are killed
\* and work at the same time.
SidecarsAreWhole == \A c \in Places : Exists(c) => sidecar[c].whole

\* A .taridx whose stamp is that of the source has the index of this version of the
\* source: build_or_load_taridx takes the stamp before it scans, so a source that is
\* replaced meanwhile leaves a stale sidecar and not a wrong one.
StampsAreHonest ==
    \A c \in Places :
        stamped /\ Exists(c) /\ sidecar[c].whole /\ StampOf[sidecar[c].stamp] = StampOf[version]
        => sidecar[c].index = version

\* A server reads members of a tar at the offsets they have in the file it opened,
\* unless the file was replaced while the server was between stamp and open.
IndexFitsFile ==
    \A p \in Processes :
        stamped /\ pc[p] = "serving" => index[p] = file[p] \/ "replaced" \in disturbed[p]

\* A process finds its sidecar gone only if another one forces a rebuild: replacing a
\* sidecar never leaves a moment without one.
OnlyForceVanishes ==
    \A p \in Processes : pc[p] = "vanished" => "forced" \in disturbed[p]
=============================================================================
