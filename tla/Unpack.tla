------------------------------- MODULE Unpack -------------------------------
(***************************************************************************)
(* config/load.py, _resolve_tar_gz_in_views: before anything else a server *)
(* unpacks the .tar.gz archives of its document views into a cache         *)
(* directory, which several servers may share.  An archive is written to   *)
(* one fixed path, dst.tmp, which is then renamed to dst; a dst that is    *)
(* there is taken as it is.                                                *)
(*                                                                         *)
(* A path names an inode, and an open file stays the same inode when its   *)
(* path is renamed: two writers of dst.tmp share one file.  The file is    *)
(* written in Chunks pieces, each at its own offset.                       *)
(***************************************************************************)
EXTENDS Naturals, Sequences, SequencesExt

CONSTANTS
    Servers,
    Sites,          \* the configurations considered (see Cluster)
    Chunks          \* number of writes that make a .tar

Archives(config, s) == config.archives[s]
Targets == {a.dst : a \in UNION {ToSet(Archives(c, s)) : c \in Sites, s \in Servers}}

\* A view lists its archives in order, and a .tar, which ends with a block of
\* zeros, takes at least one write.
ASSUME UnpackAssumption ==
    /\ Chunks \in Nat \ {0}
    /\ \A c \in Sites, s \in Servers : Archives(c, s) \in Seq(ToSet(Archives(c, s)))

NoFile == 0
Hole == "hole"

VARIABLES
    site,           \* the configuration of every server
    files,          \* the contents of every inode made so far: a sequence of pieces
    temp,           \* the inode at dst.tmp, for every dst
    published,      \* the inode at dst
    job,            \* what each server unpacks: its archive, next access, inode and offset
    overlapped      \* history: the dst that two servers unpacked at once

unpackVars == <<files, temp, published, job, overlapped>>

Idle == [step |-> "idle", nr |-> 0, inode |-> NoFile, at |-> 0]

UnpackInit ==
    /\ files = <<>>
    /\ temp = [d \in Targets |-> NoFile]
    /\ published = [d \in Targets |-> NoFile]
    /\ job = [s \in Servers |-> Idle]
    /\ overlapped = {}

Archive(s) == Archives(site, s)[job[s].nr]

\* The server is between its look at dst and its rename.
Unpacking(s, d) == job[s].step \in {"open", "copy", "rename"} /\ Archive(s).dst = d

\* The first archive, or the next one; the end of the list ends the unpacking.
NextArchive(s, nr) ==
    IF nr <= Len(Archives(site, s))
    THEN [step |-> "look", nr |-> nr, inode |-> NoFile, at |-> 0]
    ELSE [Idle EXCEPT !.step = "done"]

\* Seeded fault: dst is written in place.
LookWithoutTemp(s) ==
    /\ job[s].step = "look"
    /\ LET d == Archive(s).dst
       IN  IF published[d] # NoFile
           THEN /\ job' = [job EXCEPT ![s] = NextArchive(s, @.nr + 1)]
                /\ UNCHANGED <<files, temp, published, overlapped>>
           ELSE /\ files' = Append(files, [i \in 1..Chunks |-> Hole])
                /\ published' = [published EXCEPT ![d] = Len(files) + 1]
                /\ job' = [job EXCEPT ![s] = [@ EXCEPT !.step = "copy", !.inode = Len(files) + 1]]
                /\ UNCHANGED <<temp, overlapped>>

\* if not dst.exists()
Look(s) ==
    /\ job[s].step = "look"
    /\ LET d == Archive(s).dst
       IN  IF published[d] # NoFile
           THEN /\ job' = [job EXCEPT ![s] = NextArchive(s, @.nr + 1)]
                /\ UNCHANGED overlapped
           ELSE /\ job' = [job EXCEPT ![s].step = "open"]
                /\ overlapped' = overlapped \union
                        {e \in {d} : \E t \in Servers \ {s} : Unpacking(t, d)}
    /\ UNCHANGED <<files, temp, published>>

\* tmp.open("wb"): a new file, or the one at that path, cut to nothing.
OpenTemp(s) ==
    /\ job[s].step = "open"
    /\ LET d == Archive(s).dst
           inode == IF temp[d] = NoFile THEN Len(files) + 1 ELSE temp[d]
           empty == [i \in 1..Chunks |-> Hole]
       IN  /\ files' = IF inode > Len(files) THEN Append(files, empty)
                       ELSE [files EXCEPT ![inode] = empty]
           /\ temp' = [temp EXCEPT ![d] = inode]
           /\ job' = [job EXCEPT ![s] = [@ EXCEPT !.step = "copy", !.inode = inode]]
    /\ UNCHANGED <<published, overlapped>>

\* copyfileobj writes one more piece.
Copy(s) ==
    /\ job[s].step = "copy"
    /\ LET next == job[s].at + 1
       IN  /\ files' = [files EXCEPT ![job[s].inode][next] = Archive(s).content]
           /\ job' = [job EXCEPT ![s] = [@ EXCEPT !.at = next,
                        !.step = IF next = Chunks THEN "rename" ELSE "copy"]]
    /\ UNCHANGED <<temp, published, overlapped>>

\* os.replace(tmp, dst) publishes whatever is at dst.tmp.
Rename(s) ==
    /\ job[s].step = "rename"
    /\ LET d == Archive(s).dst
       IN  /\ temp[d] # NoFile
           /\ published' = [published EXCEPT ![d] = temp[d]]
           /\ temp' = [temp EXCEPT ![d] = NoFile]
    /\ job' = [job EXCEPT ![s] = NextArchive(s, @.nr + 1)]
    /\ UNCHANGED <<files, overlapped>>

\* os.replace finds no dst.tmp: FileNotFoundError.
RenameFails(s) == job[s].step = "rename" /\ temp[Archive(s).dst] = NoFile

UnpackStep(s) == Look(s) \/ OpenTemp(s) \/ Copy(s) \/ Rename(s)

-----------------------------------------------------------------------------
\* Two archives of one base name (x.tgz and x.tar.gz, or of two directories)
\* have one dst.
Collide(d) ==
    \E a, b \in UNION {ToSet(Archives(site, s)) : s \in Servers} :
        a.dst = d /\ b.dst = d /\ a.content # b.content

\* The .tar at dst holds the whole archive.
Whole(a) ==
    /\ published[a.dst] # NoFile
    /\ files[published[a.dst]] = [i \in 1..Chunks |-> a.content]

=============================================================================
