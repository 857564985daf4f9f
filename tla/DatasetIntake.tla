--------------------------- MODULE DatasetIntake ---------------------------
(***************************************************************************)
(* Registration of dataset versions: fetching a published version from     *)
(* scenara-data into artifacts/remote-datasets, its temporary file and     *)
(* replacement, the digest check, validate_manifest and the row; the check *)
(* of a training configuration against such a file; and uploads, which     *)
(* write any file of the workspace in place                                *)
(* (data_platform.py, dataset_versions.py, datasets/manifest.py, api.py).  *)
(*                                                                         *)
(* All versions belong to one dataset, hence to one row.  A version's file *)
(* stands for any file a manifest_path names.  Files are inodes: a writer  *)
(* keeps the one it opened, whatever is renamed.  A file cut off anywhere, *)
(* or empty, is torn: it may lack rows or end in half a row.  Nothing but  *)
(* a fetch writes its temporary file.  The object store behind an upload   *)
(* and the audit events are left out.                                      *)
(***************************************************************************)
EXTENDS Naturals

CONSTANTS
  Groups,     \* bound: which requests and uploads come together
  Requests,   \* requests, one of these kinds each
  Kind,       \* Requests -> {"fetch", "reference", "legacy", "training"}
  Version,    \* Requests -> Versions: the version it names
  Path,       \* Requests -> Versions: whose file its manifest_path is; a fetch sets its own
  Pid,        \* Requests -> process ids; containers may share one
  Uploads,    \* requests of POST /api/uploads
  Target,     \* Uploads -> Versions: whose file it writes
  Versions,
  MaxRetries, \* SETTINGS.data_platform_max_retries
  MaxInodes,  \* bound on files
  MaxCrashes, \* bound on processes that die in a request
  NoVersion

Pids == {Pid[r] : r \in Requests}

ASSUME IntakeAssumption ==
  /\ Groups \subseteq SUBSET (Requests \cup Uploads) /\ Requests \cap Uploads = {}
  /\ Kind \in [Requests -> {"fetch", "reference", "legacy", "training"}]
  /\ Version \in [Requests -> Versions]
  /\ Path \in [Requests -> Versions]
  /\ \A r \in Requests : Kind[r] = "fetch" => Path[r] = Version[r]
  /\ Pid \in [Requests -> Pids]
  /\ Target \in [Uploads -> Versions]
  /\ MaxRetries \in Nat
  /\ MaxInodes \in Nat
  /\ MaxCrashes \in Nat
  /\ NoVersion \notin Versions \cup {"torn", "other"}
  /\ {"torn", "other"} \cap Versions = {}

VARIABLES
  group,    \* the requests and uploads of this behaviour
  stored,   \* each version's manifest under remote-datasets: an inode, 0 if absent
  temp,     \* the temporary file of each version and process id: an inode, 0 if absent
  content,  \* each inode: the version whose manifest it holds, "torn" or "other"
  inodes,   \* how many inodes there have been
  request,  \* each request: its step, failed attempts, the inode it has open, rows counted
  upload,   \* each upload: its step and the inode it has open
  row,      \* dataset_versions: version, whether a reference vouches for it, what was counted
  shared,   \* history: a temporary file was opened while another fetch was using it
  stale,    \* history: requests whose file was changed after they checked it
  crashes

intakeVars ==
  <<group, stored, temp, content, inodes, request, upload, row, shared, stale, crashes>>

Inodes     == 1 .. MaxInodes
Manifests  == Versions \cup {"torn", "other"}
NoRow      == [version |-> NoVersion, vouched |-> FALSE, counted |-> NoVersion, stale |-> FALSE]
Unanswered == {"asked", "referenced"}
Writing    == {"opened", "written"}

IntakeInit ==
  /\ group   \in Groups
  /\ stored  = [v \in Versions |-> 0]
  /\ temp    = [v \in Versions |-> [p \in Pids |-> 0]]
  /\ content = [i \in Inodes |-> "torn"]
  /\ inodes  = 0
  /\ request = [r \in Requests |-> [step |-> "new", failures |-> 0, inode |-> 0, counted |-> NoVersion]]
  /\ upload  = [u \in Uploads |-> [step |-> "new", inode |-> 0]]
  /\ row     = NoRow
  /\ shared  = FALSE
  /\ stale   = {}
  /\ crashes = 0

At(r, steps) == request[r].step \in steps
Step(r, s)   == request' = [request EXCEPT ![r].step = s]
FilesSame    == UNCHANGED <<stored, temp, content, inodes, upload>>

\* History: the file of requests R changes, and some of them have checked it.
Outdate(R) == stale' = stale \cup {r \in R : At(r, {"checked"})}

\* What a request reads at its path.
Present(r) == stored[Path[r]] # 0
Found(r)   == content[stored[Path[r]]]

-----------------------------------------------------------------------------
(* fetch_dataset_version and _request: two GETs, each with its retries. *)

Receive(r) ==
  /\ At(r, {"new"})
  /\ Step(r, CASE Kind[r] = "fetch"  -> "asked"
               [] Kind[r] = "legacy" -> "checked"
               [] OTHER              -> "fetched")
  /\ FilesSame
  /\ UNCHANGED <<group, row, shared, stale, crashes>>

\* Mutant: attempts are not counted.
RetryForever(r) ==
  /\ At(r, Unanswered)
  /\ request' = [request EXCEPT ![r].failures = @ + 1]
  /\ FilesSame
  /\ UNCHANGED <<group, row, shared, stale, crashes>>

\* No answer or a 5xx: the same GET again.
RetryGet(r) ==
  /\ At(r, Unanswered)
  /\ request[r].failures < MaxRetries
  /\ request' = [request EXCEPT ![r].failures = @ + 1]
  /\ FilesSame
  /\ UNCHANGED <<group, row, shared, stale, crashes>>

\* The last attempt failed, or the answer is an error or no JSON: a 502.
GiveUp(r) ==
  /\ At(r, Unanswered)
  /\ Step(r, "refused")
  /\ FilesSame
  /\ UNCHANGED <<group, row, shared, stale, crashes>>

GetReference(r) ==
  /\ At(r, {"asked"})
  /\ request' = [request EXCEPT ![r].step = "referenced", ![r].failures = 0]
  /\ FilesSame
  /\ UNCHANGED <<group, row, shared, stale, crashes>>

\* Others that hold this request's temporary file open, or have left it to be renamed.
Sharers(r) == {q \in Requests \ {r} : At(q, Writing) /\ Version[q] = Version[r] /\ Pid[q] = Pid[r]}

\* The manifest's digest matches the reference; write_bytes opens the file and
\* truncates it.  The name is free: a new inode.  It is taken: the inode behind it.
OpenTemporary(r) ==
  LET v == Version[r]
      p == Pid[r]
      inode == IF temp[v][p] = 0 THEN inodes + 1 ELSE temp[v][p]
  IN  /\ At(r, {"referenced"})
      /\ inode <= MaxInodes
      /\ temp' = [temp EXCEPT ![v][p] = inode]
      /\ content' = [content EXCEPT ![inode] = "torn"]
      /\ inodes' = IF temp[v][p] = 0 THEN inodes + 1 ELSE inodes
      /\ request' = [request EXCEPT ![r].step = "opened", ![r].inode = inode]
      /\ shared' = (shared \/ Sharers(r) # {})
      /\ UNCHANGED <<group, stored, upload, row, stale, crashes>>

\* Mutant: the answer's digest is not compared with the reference.
WriteUnverified(r) ==
  /\ At(r, {"opened"})
  /\ \E c \in {Version[r], "other"} : content' = [content EXCEPT ![request[r].inode] = c]
  /\ Step(r, "written")
  /\ UNCHANGED <<group, stored, temp, inodes, upload, row, shared, stale, crashes>>

WriteManifest(r) ==
  /\ At(r, {"opened"})
  /\ content' = [content EXCEPT ![request[r].inode] = Version[r]]
  /\ Step(r, "written")
  /\ Outdate({q \in Requests : stored[Path[q]] = request[r].inode /\ Version[q] # Version[r]})
  /\ UNCHANGED <<group, stored, temp, inodes, upload, row, shared, crashes>>

\* os.replace takes whatever has the name now; nothing has: a 500.
ReplaceManifest(r) ==
  LET v == Version[r]
      p == Pid[r]
  IN  /\ At(r, {"written"})
      /\ IF temp[v][p] = 0
         THEN Step(r, "refused") /\ UNCHANGED <<stored, temp, stale>>
         ELSE /\ stored' = [stored EXCEPT ![v] = temp[v][p]]
              /\ temp' = [temp EXCEPT ![v][p] = 0]
              /\ Step(r, "fetched")
              /\ Outdate({q \in Requests : Path[q] = v /\ Version[q] # v})
      /\ UNCHANGED <<group, content, inodes, upload, row, shared, crashes>>

-----------------------------------------------------------------------------
(* register_dataset_version: three reads of the file, then the row. *)

\* Mutant: the file is only looked for.
CheckPresence(r) ==
  /\ At(r, {"fetched"})
  /\ Step(r, IF ~Present(r) THEN "refused"
             ELSE IF Kind[r] = "training" THEN "trained" ELSE "checked")
  /\ FilesSame
  /\ UNCHANGED <<group, row, shared, stale, crashes>>

\* validate_dataset_version_reference.  For a training configuration
\* (reference_validation_issues) domain and schemas may still refuse.
CheckDigest(r) ==
  /\ At(r, {"fetched"})
  /\ Step(r, IF ~Present(r) \/ Found(r) # Version[r] THEN "refused"
             ELSE IF Kind[r] = "training" THEN "trained" ELSE "checked")
  /\ FilesSame
  /\ UNCHANGED <<group, row, shared, stale, crashes>>

\* validate_manifest: what is left of a torn file may be in order too, an empty one has
\* no issue unless min_split_counts asks for rows.
CountRows(r) ==
  /\ At(r, {"checked"})
  /\ Present(r)
  /\ request' = [request EXCEPT ![r].step = "counted", ![r].counted = Found(r)]
  /\ FilesSame
  /\ UNCHANGED <<group, row, shared, stale, crashes>>

\* No file, a part of it, or an issue of a row.
RefuseManifest(r) ==
  /\ At(r, {"checked"})
  /\ Step(r, "refused")
  /\ FilesSame
  /\ UNCHANGED <<group, row, shared, stale, crashes>>

UpsertDataset(r) ==
  /\ At(r, {"counted"})
  /\ row' = [version |-> Version[r], vouched |-> Kind[r] # "legacy",
             counted |-> request[r].counted, stale |-> r \in stale]
  /\ Step(r, "registered")
  /\ FilesSame
  /\ UNCHANGED <<group, shared, stale, crashes>>

\* A process dies, and the request with it; its files stay.
Crash(r) ==
  /\ ~At(r, {"new", "refused", "registered", "trained", "dead"})
  /\ crashes < MaxCrashes
  /\ crashes' = crashes + 1
  /\ Step(r, "dead")
  /\ FilesSame
  /\ UNCHANGED <<group, row, shared, stale>>

-----------------------------------------------------------------------------
(* upload_file: chunk after chunk to whatever file has the name. *)

\* open("wb"): the file is truncated where it lies, or made.
BeginUpload(u) ==
  LET v == Target[u]
      inode == IF stored[v] = 0 THEN inodes + 1 ELSE stored[v]
  IN  /\ upload[u].step = "new"
      /\ inode <= MaxInodes
      /\ stored' = [stored EXCEPT ![v] = inode]
      /\ content' = [content EXCEPT ![inode] = "torn"]
      /\ inodes' = IF stored[v] = 0 THEN inodes + 1 ELSE inodes
      /\ upload' = [upload EXCEPT ![u] = [step |-> "writing", inode |-> inode]]
      /\ Outdate({q \in Requests : Path[q] = v})
      /\ UNCHANGED <<group, temp, request, row, shared, crashes>>

\* A chunk; the last one may make the file any manifest.  An upload that is done, or whose
\* process died, writes no more.
WriteUpload(u) ==
  /\ upload[u].step = "writing"
  /\ \E c \in Manifests : content' = [content EXCEPT ![upload[u].inode] = c]
  /\ Outdate({q \in Requests : stored[Path[q]] = upload[u].inode})
  /\ UNCHANGED <<group, stored, temp, inodes, request, upload, row, shared, crashes>>

\* Too many bytes: whatever has the name by now is removed.
RefuseUpload(u) ==
  /\ upload[u].step = "writing"
  /\ stored' = [stored EXCEPT ![Target[u]] = 0]
  /\ upload' = [upload EXCEPT ![u].step = "refused"]
  /\ UNCHANGED <<group, temp, content, inodes, request, row, shared, stale, crashes>>

IntakeNext ==
  \/ \E u \in group \cap Uploads : BeginUpload(u) \/ WriteUpload(u) \/ RefuseUpload(u)
  \/ \E r \in group \cap Requests :
       \/ Receive(r)
       \/ RetryGet(r)
       \/ GiveUp(r)
       \/ GetReference(r)
       \/ OpenTemporary(r)
       \/ WriteManifest(r)
       \/ ReplaceManifest(r)
       \/ CheckDigest(r)
       \/ CountRows(r)
       \/ RefuseManifest(r)
       \/ UpsertDataset(r)
       \/ Crash(r)

IntakeSpec == IntakeInit /\ [][IntakeNext]_intakeVars

-----------------------------------------------------------------------------

IntakeSteps == {"new", "asked", "referenced", "opened", "written", "fetched", "checked", "counted",
                "registered", "trained", "refused", "dead"}
RequestStates == [step: IntakeSteps, failures: 0 .. MaxRetries, inode: 0 .. MaxInodes,
                  counted: Manifests \cup {NoVersion}]

\* Every variable keeps its type.
IntakeTypeOK ==
  /\ group   \in Groups
  /\ stored  \in [Versions -> 0 .. MaxInodes]
  /\ temp    \in [Versions -> [Pids -> 0 .. MaxInodes]]
  /\ content \in [Inodes -> Manifests]
  /\ inodes  \in 0 .. MaxInodes
  /\ request \in [Requests -> RequestStates]
  /\ upload  \in [Uploads -> [step: {"new", "writing", "refused"}, inode: 0 .. MaxInodes]]
  /\ row     \in [version: Versions \cup {NoVersion}, vouched: BOOLEAN,
                  counted: Manifests \cup {NoVersion}, stale: BOOLEAN]
  /\ shared  \in BOOLEAN
  /\ stale   \subseteq Requests
  /\ crashes \in 0 .. MaxCrashes

\* The digest is checked on one read of the file and the rows are counted on another.
\* Unless an upload wrote the file between the two, or a fetch put there another version
\* than the request names, what was counted for a row that names a reference is the
\* manifest the reference names; or a part of it, if two fetches shared a temporary file.
RowIsVerified ==
  row.vouched /\ ~row.stale =>
    row.counted = row.version \/ (shared /\ row.counted = "torn")

\* A version's file that no upload opened is whole.  Fetches that share a temporary file
\* may publish it half written; then it heals, and is whole again as soon as none of them
\* is writing, if none died.  A fetch also mends what an upload left.
DownloadsSettle ==
  \A v \in Versions :
    /\ stored[v] # 0 /\ \A u \in Uploads : upload[u].inode # stored[v]
    /\ ~shared \/ (crashes = 0 /\ \A r \in Requests : ~At(r, Writing))
    => content[stored[v]] = v
=============================================================================
