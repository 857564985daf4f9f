-------------------------- MODULE DatasetIntakeProofs --------------------------
(***************************************************************************)
(* Theorems about DatasetIntake, for all requests, versions, process ids   *)
(* and bounds.                                                             *)
(***************************************************************************)
EXTENDS DatasetIntake, TLAPS

\* Inodes in use are numbered in the order they were made.
Fresh ==
  /\ \A v \in Versions : stored[v] <= inodes
  /\ \A v \in Versions, p \in Pids : temp[v][p] <= inodes
  /\ \A r \in Requests : At(r, Writing) => request[r].inode \in 1 .. inodes
  /\ \A u \in Uploads : /\ upload[u].inode <= inodes
                        /\ upload[u].step = "new" <=> upload[u].inode = 0

\* No two names stand for one inode.
Distinct ==
  /\ \A v, w \in Versions : stored[v] # 0 /\ stored[v] = stored[w] => v = w
  /\ \A v, w \in Versions, p \in Pids : stored[v] # 0 => stored[v] # temp[w][p]
  /\ \A v, w \in Versions, p, q \in Pids :
       temp[v][p] # 0 /\ temp[v][p] = temp[w][q] => v = w /\ p = q

\* Whoever writes an inode that has a name writes the version of that name.
Owned ==
  \A r \in Requests, v \in Versions :
    At(r, Writing) =>
      /\ stored[v] = request[r].inode => Version[r] = v
      /\ \A p \in Pids : temp[v][p] = request[r].inode => Version[r] = v

\* No upload opened the inode.
Untouched(i) == \A u \in Uploads : upload[u].inode # i

\* A fetch has a temporary file to itself; what it makes holds its version, or a part.
Pure ==
  \A v \in Versions :
    /\ stored[v] # 0 /\ Untouched(stored[v]) => content[stored[v]] \in {v, "torn"}
    /\ \A p \in Pids : temp[v][p] # 0 =>
         Untouched(temp[v][p]) /\ content[temp[v][p]] \in {v, "torn"}

\* A file is whole, or the fetch that will make it whole is under way.
Mending(i, v) ==
  \/ content[i] = v
  \/ \E r \in Requests : At(r, {"opened"}) /\ request[r].inode = i

Whole ==
  crashes = 0 =>
    \A v \in Versions :
      /\ stored[v] # 0 /\ Untouched(stored[v]) => Mending(stored[v], v)
      /\ \A p \in Pids : temp[v][p] # 0 => Mending(temp[v][p], v)

\* What holds as long as no two fetches have shared a temporary file.
Unshared ==
  /\ \A r \in Requests : At(r, Writing) => temp[Version[r]][Pid[r]] = request[r].inode
  /\ \A r, q \in Requests :
       At(r, Writing) /\ At(q, Writing) /\ r # q => ~(Version[r] = Version[q] /\ Pid[r] = Pid[q])
  /\ \A r \in Requests : At(r, {"written"}) => content[request[r].inode] = Version[r]
  /\ \A v \in Versions : stored[v] # 0 /\ Untouched(stored[v]) => content[stored[v]] = v

\* A request past its digest check finds what it checked, or a part of it when a temporary
\* file was shared, and has counted it.
Good(r, c) == c = Version[r] \/ (shared /\ c = "torn")

Vouched(r) ==
  Kind[r] # "legacy" /\ r \notin stale =>
    /\ At(r, {"checked"}) => stored[Path[r]] = 0 \/ Good(r, Found(r))
    /\ At(r, {"counted"}) => Good(r, request[r].counted)

IntakeInv ==
  /\ IntakeTypeOK
  /\ Fresh
  /\ Distinct
  /\ Owned
  /\ Pure
  /\ Whole
  /\ ~shared => Unshared
  /\ \A r \in Requests : Vouched(r)
  /\ RowIsVerified

-----------------------------------------------------------------------------

LEMMA IntakeInitInv == IntakeInit => IntakeInv
<1> SUFFICES ASSUME IntakeInit
             PROVE  IntakeInv
  OBVIOUS
<1>1. [step |-> "new", failures |-> 0, inode |-> 0, counted |-> NoVersion] \in RequestStates
  BY IntakeAssumption DEF RequestStates, IntakeSteps
<1>2. IntakeTypeOK
  <2>1. request \in [Requests -> RequestStates]
    BY <1>1 DEF IntakeInit
  <2>2. 0 \in 0 .. MaxInodes /\ 0 \in 0 .. MaxCrashes
    BY IntakeAssumption
  <2>3. temp \in [Versions -> [Pids -> 0 .. MaxInodes]] /\ stored \in [Versions -> 0 .. MaxInodes]
    BY <2>2 DEF IntakeInit
  <2>4. content \in [Inodes -> Manifests]
    BY DEF IntakeInit, Manifests
  <2>5. row \in [version: Versions \cup {NoVersion}, vouched: BOOLEAN,
                counted: Manifests \cup {NoVersion}, stale: BOOLEAN]
    BY DEF IntakeInit, NoRow
  <2>6. upload \in [Uploads -> [step: {"new", "writing", "refused"}, inode: 0 .. MaxInodes]]
    BY <2>2 DEF IntakeInit
  <2> QED
    BY <2>1, <2>2, <2>3, <2>4, <2>5, <2>6 DEF IntakeInit, IntakeTypeOK
<1>3. /\ \A r \in Requests : request[r].step = "new"
      /\ \A u \in Uploads : upload[u] = [step |-> "new", inode |-> 0]
  BY DEF IntakeInit
<1>4. Pure /\ Whole /\ Unshared
  BY <1>3 DEF IntakeInit, Pure, Whole, Unshared, At, Writing
<1>5. \A r \in Requests : Vouched(r)
  BY <1>3 DEF Vouched, At
<1> QED
  BY <1>2, <1>3, <1>4, <1>5
     DEF IntakeInit, IntakeInv, Fresh, Distinct, Owned, RowIsVerified, At, Writing, NoRow

-----------------------------------------------------------------------------
(* Types. *)

\* A request stays a request when some of its fields change within their range.
LEMMA RequestField ==
  ASSUME NEW q \in RequestStates
  PROVE  /\ \A s \in IntakeSteps : [q EXCEPT !.step = s] \in RequestStates
         /\ \A n \in 0 .. MaxRetries : [q EXCEPT !.failures = n] \in RequestStates
         /\ \A s \in IntakeSteps, n \in 0 .. MaxRetries :
              [q EXCEPT !.step = s, !.failures = n] \in RequestStates
         /\ \A s \in IntakeSteps, i \in 0 .. MaxInodes :
              [q EXCEPT !.step = s, !.inode = i] \in RequestStates
         /\ \A s \in IntakeSteps, c \in Manifests \cup {NoVersion} :
              [q EXCEPT !.step = s, !.counted = c] \in RequestStates
<1>1. \A s \in IntakeSteps : [q EXCEPT !.step = s] \in RequestStates
  BY DEF RequestStates
<1>2. \A n \in 0 .. MaxRetries : [q EXCEPT !.failures = n] \in RequestStates
  BY DEF RequestStates
<1>3. \A s \in IntakeSteps, n \in 0 .. MaxRetries :
        [q EXCEPT !.step = s, !.failures = n] \in RequestStates
  BY DEF RequestStates
<1>4. \A s \in IntakeSteps, i \in 0 .. MaxInodes : [q EXCEPT !.step = s, !.inode = i] \in RequestStates
  BY DEF RequestStates
<1>5. \A s \in IntakeSteps, c \in Manifests \cup {NoVersion} :
        [q EXCEPT !.step = s, !.counted = c] \in RequestStates
  BY DEF RequestStates
<1> QED
  BY <1>1, <1>2, <1>3, <1>4, <1>5

\* Every action keeps the types.
LEMMA IntakeTypesKept ==
  ASSUME IntakeTypeOK, [IntakeNext]_intakeVars
  PROVE  IntakeTypeOK'
<1> USE IntakeAssumption DEF IntakeTypeOK, FilesSame
<1>1. CASE UNCHANGED intakeVars
  BY <1>1 DEF intakeVars
<1>17. ASSUME NEW u \in group \cap Uploads, BeginUpload(u) \/ WriteUpload(u) \/ RefuseUpload(u)
       PROVE  IntakeTypeOK'
  <2>0. stale' = stale \/ \E R \in SUBSET Requests : Outdate(R)
    BY <1>17 DEF BeginUpload, WriteUpload, RefuseUpload
  <2>1. stale' \subseteq Requests
    BY <2>0 DEF Outdate
  <2>2. /\ u \in Uploads /\ Target[u] \in Versions
        /\ upload[u] \in [step: {"new", "writing", "refused"}, inode: 0 .. MaxInodes]
    OBVIOUS
  <2>3. CASE BeginUpload(u)
    <3>1. PICK i : i = IF stored[Target[u]] = 0 THEN inodes + 1 ELSE stored[Target[u]]
      OBVIOUS
    <3>2. i \in 1 .. MaxInodes /\ (stored[Target[u]] = 0 => i = inodes + 1)
      BY <2>2, <2>3, <3>1 DEF BeginUpload
    <3>3. /\ stored' = [stored EXCEPT ![Target[u]] = i]
          /\ content' = [content EXCEPT ![i] = "torn"]
          /\ inodes' = IF stored[Target[u]] = 0 THEN inodes + 1 ELSE inodes
          /\ upload' = [upload EXCEPT ![u] = [step |-> "writing", inode |-> i]]
          /\ UNCHANGED <<group, temp, request, row, shared, crashes>>
      BY <2>3, <3>1 DEF BeginUpload
    <3>4. content' \in [Inodes -> Manifests]
      BY <3>2, <3>3 DEF Inodes, Manifests
    <3>5. /\ stored' \in [Versions -> 0 .. MaxInodes] /\ inodes' \in 0 .. MaxInodes
          /\ upload' \in [Uploads -> [step: {"new", "writing", "refused"}, inode: 0 .. MaxInodes]]
      BY <3>2, <3>3
    <3> QED
      BY <2>1, <3>3, <3>4, <3>5
  <2>4. CASE WriteUpload(u)
    <3>1. PICK c \in Manifests : content' = [content EXCEPT ![upload[u].inode] = c]
      BY <2>4 DEF WriteUpload
    <3>2. content' \in [Inodes -> Manifests]
      BY <3>1
    <3> QED
      BY <2>1, <2>4, <3>2 DEF WriteUpload
  <2>5. CASE RefuseUpload(u)
    <3>1. /\ upload' = [upload EXCEPT ![u] = [upload[u] EXCEPT !.step = "refused"]]
          /\ stored' = [stored EXCEPT ![Target[u]] = 0]
      BY <2>5 DEF RefuseUpload
    <3>3. [upload[u] EXCEPT !.step = "refused"] \in [step: {"new", "writing", "refused"}, inode: 0 .. MaxInodes]
      BY <2>2
    <3>4. 0 \in 0 .. MaxInodes
      OBVIOUS
    <3>2. /\ upload' \in [Uploads -> [step: {"new", "writing", "refused"}, inode: 0 .. MaxInodes]]
          /\ stored' \in [Versions -> 0 .. MaxInodes]
      BY <2>2, <3>1, <3>3, <3>4
    <3> QED
      BY <2>1, <2>5, <3>2 DEF RefuseUpload
  <2> QED
    BY <1>17, <2>3, <2>4, <2>5
<1> SUFFICES ASSUME NEW r \in group \cap Requests, IntakeNext,
                    \/ Receive(r) \/ RetryGet(r) \/ GiveUp(r) \/ GetReference(r) \/ OpenTemporary(r)
                    \/ WriteManifest(r) \/ ReplaceManifest(r) \/ CheckDigest(r) \/ CountRows(r)
                    \/ RefuseManifest(r) \/ UpsertDataset(r) \/ Crash(r)
             PROVE  IntakeTypeOK'
  BY <1>1, <1>17 DEF IntakeNext
<1>2. r \in Requests
  OBVIOUS
<1>3. request[r] \in RequestStates /\ Pid[r] \in Pids /\ Version[r] \in Versions /\ Path[r] \in Versions
  BY <1>2 DEF Pids
<1>4. ASSUME NEW s \in IntakeSteps, Step(r, s)
      PROVE  request' \in [Requests -> RequestStates]
  BY <1>2, <1>3, <1>4, RequestField DEF Step
<1>5. CASE Receive(r)
  <2>1. PICK s \in IntakeSteps : Step(r, s)
    BY <1>2, <1>5 DEF Receive, IntakeSteps
  <2> QED
    BY <1>4, <1>5, <2>1 DEF Receive
<1>6. CASE RetryGet(r)
  <2>1. request[r].failures + 1 \in 0 .. MaxRetries
    BY <1>3, <1>6 DEF RetryGet, RequestStates
  <2>2. request' \in [Requests -> RequestStates]
    BY <1>2, <1>3, <1>6, <2>1, RequestField DEF RetryGet
  <2> QED
    BY <1>6, <2>2 DEF RetryGet
<1>7. CASE GiveUp(r)
  BY <1>4, <1>7 DEF GiveUp, IntakeSteps
<1>8. CASE GetReference(r)
  <2>1. request' \in [Requests -> RequestStates]
    <3>1. "referenced" \in IntakeSteps /\ 0 \in 0 .. MaxRetries
      BY DEF IntakeSteps
    <3>2. [request[r] EXCEPT !.step = "referenced", !.failures = 0] \in RequestStates
      BY <1>3, <3>1, RequestField
    <3>3. request' = [request EXCEPT ![r] = [request[r] EXCEPT !.step = "referenced", !.failures = 0]]
      BY <1>2, <1>8 DEF GetReference
    <3> QED
      BY <3>2, <3>3
  <2> QED
    BY <1>8, <2>1 DEF GetReference
<1>9. CASE OpenTemporary(r)
  <2> DEFINE inode == IF temp[Version[r]][Pid[r]] = 0 THEN inodes + 1 ELSE temp[Version[r]][Pid[r]]
  <2>1. inode \in 1 .. MaxInodes /\ (temp[Version[r]][Pid[r]] = 0 => inode = inodes + 1)
    BY <1>3, <1>9 DEF OpenTemporary
  <2>2. /\ temp' = [temp EXCEPT ![Version[r]][Pid[r]] = inode]
        /\ content' = [content EXCEPT ![inode] = "torn"]
        /\ request' = [request EXCEPT ![r].step = "opened", ![r].inode = inode]
        /\ inodes' = IF temp[Version[r]][Pid[r]] = 0 THEN inodes + 1 ELSE inodes
    BY <1>9 DEF OpenTemporary
  <2> HIDE DEF inode
  <2>3. temp' \in [Versions -> [Pids -> 0 .. MaxInodes]]
    BY <1>3, <2>1, <2>2
  <2>4. content' \in [Inodes -> Manifests]
    BY <2>1, <2>2 DEF Inodes, Manifests
  <2>5. request' \in [Requests -> RequestStates]
    <3>1. "opened" \in IntakeSteps /\ inode \in 0 .. MaxInodes
      BY <2>1 DEF IntakeSteps
    <3>2. [request[r] EXCEPT !.step = "opened", !.inode = inode] \in RequestStates
      BY <1>3, <3>1, RequestField
    <3>3. request' = [request EXCEPT ![r] = [request[r] EXCEPT !.step = "opened", !.inode = inode]]
      BY <1>2, <2>2
    <3> QED
      BY <3>2, <3>3
  <2>6. inodes' \in 0 .. MaxInodes
    BY <2>1, <2>2
  <2>7. shared' \in BOOLEAN
    BY <1>9 DEF OpenTemporary
  <2> QED
    BY <1>9, <2>3, <2>4, <2>5, <2>6, <2>7 DEF OpenTemporary
<1>10. CASE WriteManifest(r)
  <2>1. content' \in [Inodes -> Manifests]
    BY <1>3, <1>10 DEF WriteManifest, Manifests
  <2>2. stale' \subseteq Requests
    BY <1>10 DEF WriteManifest, Outdate
  <2> QED
    BY <1>4, <1>10, <2>1, <2>2 DEF WriteManifest, IntakeSteps
<1>11. CASE ReplaceManifest(r)
  <2>1. request' \in [Requests -> RequestStates]
    BY <1>4, <1>11 DEF ReplaceManifest, IntakeSteps
  <2>2. stored' \in [Versions -> 0 .. MaxInodes]
    <3>1. temp[Version[r]][Pid[r]] \in 0 .. MaxInodes
      BY <1>3
    <3>2. stored' = stored \/ stored' = [stored EXCEPT ![Version[r]] = temp[Version[r]][Pid[r]]]
      BY <1>11 DEF ReplaceManifest
    <3> QED
      BY <3>1, <3>2
  <2>3. temp' \in [Versions -> [Pids -> 0 .. MaxInodes]]
    <3>1. PICK f : f = [temp[Version[r]] EXCEPT ![Pid[r]] = 0]
      OBVIOUS
    <3>2. f \in [Pids -> 0 .. MaxInodes]
      BY <1>3, <3>1
    <3>3. temp' = temp \/ temp' = [temp EXCEPT ![Version[r]] = f]
      BY <1>11, <3>1 DEF ReplaceManifest
    <3>4. temp \in [Versions -> [Pids -> 0 .. MaxInodes]]
      OBVIOUS
    <3> HIDE DEF IntakeTypeOK
    <3> QED
      BY <3>2, <3>3, <3>4
  <2>4. stale' \subseteq Requests
    BY <1>11 DEF ReplaceManifest, Outdate
  <2> QED
    BY <1>11, <2>1, <2>2, <2>3, <2>4 DEF ReplaceManifest
<1>12. CASE CheckDigest(r)
  <2>1. PICK s \in IntakeSteps : Step(r, s)
    BY <1>12 DEF CheckDigest, IntakeSteps
  <2> QED
    BY <1>4, <1>12, <2>1 DEF CheckDigest
<1>13. CASE CountRows(r)
  <2>1. Found(r) \in Manifests
    <3>1. stored[Path[r]] \in Inodes
      BY <1>3, <1>13 DEF CountRows, Present, Inodes
    <3> QED
      BY <3>1 DEF Found
  <2>2. request' \in [Requests -> RequestStates]
    <3>1. "counted" \in IntakeSteps
      BY DEF IntakeSteps
    <3>2. [request[r] EXCEPT !.step = "counted", !.counted = Found(r)] \in RequestStates
      BY <1>3, <2>1, <3>1, RequestField
    <3>3. request' = [request EXCEPT ![r] = [request[r] EXCEPT !.step = "counted", !.counted = Found(r)]]
      BY <1>2, <1>13 DEF CountRows
    <3> QED
      BY <3>2, <3>3
  <2> QED
    BY <1>13, <2>2 DEF CountRows
<1>14. CASE RefuseManifest(r)
  BY <1>4, <1>14 DEF RefuseManifest, IntakeSteps
<1>15. CASE UpsertDataset(r)
  <2>1. request[r].counted \in Manifests \cup {NoVersion}
    BY <1>3 DEF RequestStates
  <2>2. row' \in [version: Versions \cup {NoVersion}, vouched: BOOLEAN,
                 counted: Manifests \cup {NoVersion}, stale: BOOLEAN]
    BY <1>3, <1>15, <2>1 DEF UpsertDataset
  <2> QED
    BY <1>4, <1>15, <2>2 DEF UpsertDataset, IntakeSteps
<1>16. CASE Crash(r)
  BY <1>4, <1>16 DEF Crash, IntakeSteps
<1> QED
  BY <1>5, <1>6, <1>7, <1>8, <1>9, <1>10, <1>11, <1>12, <1>13, <1>14, <1>15, <1>16

-----------------------------------------------------------------------------
(* The invariant. *)

\* A request that neither opens, writes nor renames a file leaves the files' part alone.
LEMMA FilesAside ==
  ASSUME IntakeInv, NEW r \in Requests, FilesSame, shared' = shared,
         \A q \in Requests \ {r} : request'[q] = request[q],
         ~At(r, Writing)', At(r, {"opened"}) => crashes' # 0, crashes = 0 \/ crashes' # 0
  PROVE  Fresh' /\ Distinct' /\ Owned' /\ Pure' /\ Whole' /\ (~shared => Unshared)'
<1> USE DEF FilesSame
<1>1. \A q \in Requests : At(q, Writing)' => q # r /\ At(q, Writing) /\ request'[q] = request[q]
  BY DEF At, Writing
<1>2. Fresh'
  BY <1>1 DEF IntakeInv, Fresh
<1>3. Distinct' /\ Pure'
  BY DEF IntakeInv, Distinct, Pure, Untouched
<1>4. Owned'
  BY <1>1 DEF IntakeInv, Owned
<1>5. Whole'
  <2>1. ASSUME crashes' = 0, NEW i, NEW v, Mending(i, v)
        PROVE  Mending(i, v)'
    BY <2>1 DEF Mending, At
  <2> QED
    BY <2>1 DEF IntakeInv, Whole, Untouched
<1>6. ASSUME ~shared
      PROVE  Unshared'
  <2>1. \A q \in Requests : At(q, {"written"})' => At(q, {"written"}) /\ request'[q] = request[q]
    BY DEF At, Writing
  <2> QED
    BY <1>1, <1>6, <2>1 DEF IntakeInv, Unshared, Untouched
<1> QED
  BY <1>2, <1>3, <1>4, <1>5, <1>6

\* What a request has verified stays so if what it finds does, or gets right.
LEMMA VouchedKept ==
  ASSUME IntakeInv, NEW q \in Requests, request'[q] = request[q],
         stale \subseteq stale', shared => shared',
         (At(q, {"checked"}) /\ Kind[q] # "legacy" /\ q \notin stale' /\ Present(q)') =>
           Good(q, Found(q))' \/ (Present(q) /\ Found(q)' = Found(q))
  PROVE  Vouched(q)'
<1>1. Vouched(q)
  BY DEF IntakeInv
<1>2. (At(q, {"checked"}) /\ Kind[q] # "legacy" /\ q \notin stale' /\ Present(q)') =>
        Good(q, Found(q))'
  BY <1>1 DEF Vouched, Present, Good
<1>3. (At(q, {"counted"}) /\ Kind[q] # "legacy" /\ q \notin stale') => Good(q, request[q].counted)'
  BY <1>1 DEF Vouched, Good
<1> QED
  BY <1>2, <1>3 DEF Vouched, At, Present

\* A request outside the file system keeps the invariant if what it verifies is right.
LEMMA RequestAside ==
  ASSUME IntakeInv, IntakeTypeOK', NEW r \in Requests, FilesSame, UNCHANGED <<shared, stale, row>>,
         \A q \in Requests \ {r} : request'[q] = request[q],
         ~At(r, Writing)', At(r, {"opened"}) => crashes' # 0, crashes = 0 \/ crashes' # 0,
         Vouched(r)'
  PROVE  IntakeInv'
<1>1. Fresh' /\ Distinct' /\ Owned' /\ Pure' /\ Whole' /\ (~shared => Unshared)'
  BY FilesAside
<1>2. ASSUME NEW q \in Requests PROVE Vouched(q)'
  <2>1. CASE q = r
    BY <2>1
  <2>2. CASE q # r
    <3>1. Present(q)' => Present(q) /\ Found(q)' = Found(q)
      BY DEF FilesSame, Present, Found
    <3> QED
      BY <2>2, <3>1, VouchedKept
  <2> QED
    BY <2>1, <2>2
<1>3. RowIsVerified'
  BY DEF IntakeInv, RowIsVerified
<1> QED
  BY <1>1, <1>2, <1>3 DEF IntakeInv

\* Opening a temporary file: a new inode, or the one a fetch has left.
LEMMA OpenKeepsInv ==
  ASSUME IntakeInv, IntakeTypeOK', NEW r \in Requests, OpenTemporary(r)
  PROVE  IntakeInv'
<1> DEFINE v == Version[r]
           p == Pid[r]
<1> USE IntakeAssumption
<1>1. v \in Versions /\ p \in Pids
  BY DEF Pids
<1>0. PICK inode : inode = IF temp[v][p] = 0 THEN inodes + 1 ELSE temp[v][p]
  OBVIOUS
<1>2. /\ inodes \in 0 .. MaxInodes /\ inodes' \in 0 .. MaxInodes /\ MaxInodes \in Nat
      /\ temp[v][p] \in 0 .. inodes
      /\ \A w \in Versions : stored[w] \in 0 .. inodes
      /\ \A w \in Versions, q \in Pids : temp[w][q] \in 0 .. inodes
  BY <1>1 DEF IntakeInv, IntakeTypeOK, Fresh
<1>3. /\ inode \in 1 .. inodes'
      /\ inodes <= inodes'
      /\ inode = temp[v][p] \/ (temp[v][p] = 0 /\ inode = inodes + 1)
  BY <1>0, <1>2 DEF OpenTemporary
<1>4. /\ \A w \in Versions, q \in Pids :
           temp'[w][q] = IF w = v /\ q = p THEN inode ELSE temp[w][q]
      /\ stored' = stored
  <2>1. temp' = [temp EXCEPT ![v][p] = inode] /\ stored' = stored
    BY <1>0 DEF OpenTemporary
  <2>2. temp \in [Versions -> [Pids -> 0 .. MaxInodes]]
    BY DEF IntakeInv, IntakeTypeOK
  <2> HIDE DEF v, p
  <2> QED
    BY <1>1, <2>1, <2>2
<1>5. inode \in Inodes /\ \A i \in Inodes : content'[i] = IF i = inode THEN "torn" ELSE content[i]
  <2>1. content' = [content EXCEPT ![inode] = "torn"]
    BY <1>0 DEF OpenTemporary
  <2>2. DOMAIN content = Inodes
    BY DEF IntakeInv, IntakeTypeOK
  <2>3. inode \in Inodes
    BY <1>2, <1>3 DEF Inodes
  <2> QED
    BY <2>1, <2>2, <2>3
<1>6. /\ \A q \in Requests \ {r} : request'[q] = request[q]
      /\ request'[r].step = "opened" /\ request'[r].inode = inode
  <2>1. request' = [request EXCEPT ![r].step = "opened", ![r].inode = inode]
    BY <1>0 DEF OpenTemporary
  <2>2. request \in [Requests -> RequestStates]
    BY DEF IntakeInv, IntakeTypeOK
  <2> QED
    BY <2>1, <2>2 DEF RequestStates
<1>7. /\ ~At(r, Writing) /\ shared' = (shared \/ Sharers(r) # {})
      /\ UNCHANGED <<row, crashes, upload, stale>>
  BY DEF OpenTemporary, At, Writing
<1> HIDE DEF v, p
<1>8. \A q \in Requests : At(q, Writing)' => q = r \/ (At(q, Writing) /\ request'[q] = request[q])
  BY <1>6 DEF At, Writing
<1>9. Fresh'
  <2>1. \A q \in Requests : At(q, Writing)' => request'[q].inode \in 1 .. inodes'
    BY <1>2, <1>3, <1>6, <1>8 DEF Fresh, IntakeInv
  <2>2. /\ \A w \in Versions : stored'[w] <= inodes'
        /\ \A w \in Versions, q \in Pids : temp'[w][q] <= inodes'
    BY <1>2, <1>3, <1>4
  <2>3. \A u \in Uploads : /\ upload'[u].inode <= inodes'
                           /\ upload'[u].step = "new" <=> upload'[u].inode = 0
    <3>1. \A u \in Uploads : upload[u].inode \in 0 .. inodes
      BY <1>2 DEF Fresh, IntakeInv, IntakeTypeOK
    <3> QED
      BY <1>2, <1>3, <1>7, <3>1 DEF Fresh, IntakeInv
  <2> QED
    BY <2>1, <2>2, <2>3 DEF Fresh
<1>10. \A w \in Versions : stored[w] # inode
  BY <1>1, <1>2, <1>3 DEF IntakeInv, Distinct
<1>11. \A w \in Versions, q \in Pids : temp[w][q] = inode => w = v /\ q = p
  BY <1>1, <1>2, <1>3 DEF IntakeInv, Distinct
<1>20. Untouched(inode)
  <2>1. CASE temp[v][p] = 0
    <3>1. \A u \in Uploads : upload[u].inode \in 0 .. inodes
      BY <1>2 DEF Fresh, IntakeInv, IntakeTypeOK
    <3> QED
      BY <1>0, <1>2, <2>1, <3>1 DEF Untouched
  <2>2. CASE temp[v][p] # 0
    BY <1>0, <1>1, <2>2 DEF Pure, IntakeInv
  <2> QED
    BY <2>1, <2>2
<1>21. \A i : Untouched(i)' <=> Untouched(i)
  BY <1>7 DEF Untouched
<1>22. Pure'
  <2>1. ASSUME NEW w \in Versions, stored'[w] # 0, Untouched(stored'[w])
        PROVE  content'[stored'[w]] \in {w, "torn"}
    <3>1. stored[w] \in Inodes /\ stored[w] # inode /\ stored'[w] = stored[w]
      BY <1>2, <1>4, <1>10, <2>1 DEF Inodes
    <3> QED
      BY <1>5, <2>1, <3>1 DEF Pure, IntakeInv
  <2>2. ASSUME NEW w \in Versions, NEW q \in Pids, temp'[w][q] # 0
        PROVE  Untouched(temp'[w][q]) /\ content'[temp'[w][q]] \in {w, "torn"}
    <3>1. CASE w = v /\ q = p
      BY <1>4, <1>5, <1>20, <3>1
    <3>2. CASE ~(w = v /\ q = p)
      <4>1. temp'[w][q] = temp[w][q] /\ temp[w][q] \in Inodes /\ temp[w][q] # inode
        BY <1>2, <1>4, <1>11, <2>2, <3>2 DEF Inodes
      <4> QED
        BY <1>5, <2>2, <4>1 DEF Pure, IntakeInv
    <3> QED
      BY <3>1, <3>2
  <2>3. \A w \in Versions : Untouched(stored'[w]) <=> Untouched(stored[w])'
    BY <1>7 DEF Untouched
  <2>4. \A w \in Versions, q \in Pids : Untouched(temp'[w][q]) <=> Untouched(temp[w][q])'
    BY <1>7 DEF Untouched
  <2> QED
    BY <2>1, <2>2, <2>3, <2>4 DEF Pure
<1>12. Distinct'
  <2>0. Distinct
    BY DEF IntakeInv
  <2>1. \A w, x \in Versions : stored'[w] # 0 /\ stored'[w] = stored'[x] => w = x
    BY <1>4 DEF IntakeInv, Distinct
  <2>2. \A w, x \in Versions, q \in Pids : stored'[w] # 0 => stored'[w] # temp'[x][q]
    BY <1>4, <1>10 DEF IntakeInv, Distinct
  <2>3. ASSUME NEW w \in Versions, NEW x \in Versions, NEW q \in Pids, NEW k \in Pids,
               temp'[w][q] # 0, temp'[w][q] = temp'[x][k]
        PROVE  w = x /\ q = k
    <3>1. CASE w = v /\ q = p
      BY <1>3, <1>4, <1>11, <2>3, <3>1
    <3>2. CASE x = v /\ k = p
      BY <1>3, <1>4, <1>11, <2>3, <3>2
    <3>3. CASE ~(w = v /\ q = p) /\ ~(x = v /\ k = p)
      <4>1. temp'[w][q] = temp[w][q] /\ temp'[x][k] = temp[x][k]
        BY <1>4, <3>3
      <4>2. temp[w][q] # 0 /\ temp[w][q] = temp[x][k]
        BY <2>3, <4>1
      <4>3. \A a, b \in Versions, c, d \in Pids :
              temp[a][c] # 0 /\ temp[a][c] = temp[b][d] => a = b /\ c = d
        BY <2>0 DEF Distinct
      <4> QED
        BY <4>2, <4>3
    <3> QED
      BY <3>1, <3>2, <3>3
  <2> QED
    BY <2>1, <2>2, <2>3 DEF Distinct
<1>13. \A q \in Requests : At(q, Writing) /\ request[q].inode = inode => Version[q] = v
  BY <1>1, <1>2, <1>3 DEF IntakeInv, Owned, Fresh
<1>14. Owned'
  <2>1. ASSUME NEW q \in Requests, NEW w \in Versions, At(q, Writing)'
        PROVE  /\ stored'[w] = request'[q].inode => Version[q] = w
               /\ \A k \in Pids : temp'[w][k] = request'[q].inode => Version[q] = w
    <3>1. CASE q = r
      <4>1. request'[q].inode = inode /\ Version[q] = v
        BY <1>6, <3>1 DEF v
      <4>2. stored'[w] # inode
        BY <1>4, <1>10
      <4>3. \A k \in Pids : temp'[w][k] = inode => w = v
        BY <1>4, <1>11
      <4> QED
        BY <4>1, <4>2, <4>3
    <3>2. CASE q # r
      BY <1>4, <1>8, <1>13, <2>1, <3>2 DEF IntakeInv, Owned
    <3> QED
      BY <3>1, <3>2
  <2> QED
    BY <2>1 DEF Owned
<1>15. ASSUME NEW i \in Inodes, NEW w \in Versions, Mending(i, w)
       PROVE  Mending(i, w)'
  <2>1. CASE i = inode
    BY <1>6, <2>1 DEF Mending, At
  <2>2. CASE i # inode
    BY <1>5, <1>6, <1>7, <1>15, <2>2 DEF Mending, At, Writing
  <2> QED
    BY <2>1, <2>2
<1>16. Whole'
  <2>1. \A w \in Versions : stored[w] # 0 => stored[w] \in Inodes
    BY DEF IntakeInv, IntakeTypeOK, Inodes
  <2>2. \A w \in Versions, q \in Pids : temp[w][q] # 0 => temp[w][q] \in Inodes
    BY <1>2 DEF Inodes
  <2>3. \A w : Mending(inode, w)'
    BY <1>6 DEF Mending, At
  <2>4. ASSUME NEW w \in Versions, crashes' = 0, stored'[w] # 0, Untouched(stored[w])'
        PROVE  Mending(stored[w], w)'
    <3>1. PICK i : i = stored[w]
      OBVIOUS
    <3>3. Untouched(i)
      BY <1>4, <1>7, <2>4, <3>1 DEF Untouched
    <3>2. Mending(i, w)' /\ i = stored'[w]
      BY <1>4, <1>7, <1>15, <2>1, <2>4, <3>1, <3>3 DEF Whole, IntakeInv
    <3> QED
      BY <3>2 DEF Mending
  <2>5. ASSUME NEW w \in Versions, NEW q \in Pids, crashes' = 0, temp'[w][q] # 0
        PROVE  Mending(temp[w][q], w)'
    <3>1. PICK i : i = temp'[w][q]
      OBVIOUS
    <3>2. Mending(i, w)'
      <4>1. CASE i = inode
        BY <2>3, <4>1
      <4>2. CASE i # inode
        BY <1>4, <1>7, <1>15, <2>2, <2>5, <3>1, <4>2 DEF Whole, IntakeInv
      <4> QED
        BY <4>1, <4>2
    <3> QED
      BY <3>1, <3>2 DEF Mending
  <2> QED
    BY <2>4, <2>5 DEF Whole
<1>17. ASSUME ~shared'
       PROVE  Unshared'
  <2>1. Unshared /\ \A q \in Requests \ {r} : At(q, Writing) => ~(Version[q] = v /\ Pid[q] = p)
    BY <1>7, <1>17 DEF IntakeInv, Sharers, v, p
  <2>2. ASSUME NEW q \in Requests \ {r}, At(q, Writing)
        PROVE  request[q].inode # inode
    <3>1. request[q].inode \in 1 .. inodes /\ temp[Version[q]][Pid[q]] = request[q].inode
      BY <2>1, <2>2 DEF IntakeInv, Fresh, Unshared
    <3>2. Version[q] \in Versions /\ Pid[q] \in Pids
      BY DEF Pids
    <3>3. ~(Version[q] = v /\ Pid[q] = p)
      BY <2>1, <2>2
    <3> QED
      BY <1>2, <1>11, <3>1, <3>2, <3>3
  <2>3. \A q \in Requests : At(q, Writing)' => temp'[Version[q]][Pid[q]] = request'[q].inode
    <3>1. \A q \in Requests : Version[q] \in Versions /\ Pid[q] \in Pids
      BY DEF Pids
    <3>2. temp'[v][p] = request'[r].inode
      BY <1>1, <1>4, <1>6
    <3>3. ASSUME NEW q \in Requests \ {r}, At(q, Writing)
          PROVE  temp'[Version[q]][Pid[q]] = request'[q].inode
      BY <1>4, <1>6, <2>1, <3>1, <3>3 DEF Unshared
    <3> QED
      BY <1>8, <3>2, <3>3 DEF v, p
  <2>4. \A q, k \in Requests :
          At(q, Writing)' /\ At(k, Writing)' /\ q # k => ~(Version[q] = Version[k] /\ Pid[q] = Pid[k])
    BY <1>8, <2>1 DEF Unshared, v, p
  <2>5. \A q \in Requests : At(q, {"written"})' => content'[request'[q].inode] = Version[q]
    <3>1. ASSUME NEW q \in Requests, At(q, {"written"})'
          PROVE  q # r /\ At(q, {"written"}) /\ request'[q] = request[q] /\ At(q, Writing)
      BY <1>6, <3>1 DEF At, Writing
    <3>2. \A q \in Requests : At(q, Writing) => request[q].inode \in Inodes
      BY <1>2 DEF IntakeInv, Fresh, Inodes
    <3> QED
      BY <1>5, <2>1, <2>2, <3>1, <3>2 DEF Unshared
  <2>6. \A w \in Versions : stored'[w] # 0 /\ Untouched(stored[w])' => content'[stored'[w]] = w
    <3>1. \A w \in Versions : stored[w] # 0 => stored[w] \in Inodes
      BY <1>2 DEF Inodes
    <3>2. \A w \in Versions : Untouched(stored[w])' => Untouched(stored[w])
      BY <1>4, <1>7 DEF Untouched
    <3> QED
      BY <1>4, <1>5, <1>10, <2>1, <3>1, <3>2 DEF Unshared
  <2> QED
    BY <2>3, <2>4, <2>5, <2>6 DEF Unshared
<1>18. ASSUME NEW q \in Requests
       PROVE  Vouched(q)'
  <2>1. CASE q = r
    BY <1>6, <2>1 DEF Vouched, At
  <2>2. CASE q # r
    <3>1. ASSUME Present(q)'
          PROVE  Present(q) /\ Found(q)' = Found(q)
      <4>1. Path[q] \in Versions /\ stored'[Path[q]] = stored[Path[q]] /\ stored[Path[q]] # 0
        BY <1>4, <3>1 DEF Present
      <4>2. stored[Path[q]] \in Inodes /\ stored[Path[q]] # inode
        BY <1>2, <1>10, <4>1 DEF Inodes
      <4> QED
        BY <1>5, <4>1, <4>2 DEF Present, Found
    <3> QED
      BY <1>6, <1>7, <2>2, <3>1, VouchedKept
  <2> QED
    BY <2>1, <2>2
<1>19. RowIsVerified'
  BY <1>7 DEF RowIsVerified, IntakeInv
<1> QED
  BY <1>9, <1>12, <1>14, <1>16, <1>17, <1>18, <1>19, <1>22 DEF IntakeInv

\* Writing the file a request has open.
LEMMA WriteKeepsInv ==
  ASSUME IntakeInv, IntakeTypeOK', NEW r \in Requests, WriteManifest(r)
  PROVE  IntakeInv'
<1> USE IntakeAssumption
<1>0. PICK i : i = request[r].inode
  OBVIOUS
<1>1. At(r, Writing) /\ i \in 1 .. inodes /\ i \in Inodes
  BY <1>0 DEF WriteManifest, At, Writing, IntakeInv, IntakeTypeOK, Fresh, Inodes
<1>2. /\ UNCHANGED <<stored, temp, inodes, upload, row, shared, crashes>>
      /\ content' \in [Inodes -> Manifests]
      /\ \A j \in Inodes : content'[j] = IF j = i THEN Version[r] ELSE content[j]
  BY <1>0 DEF WriteManifest, IntakeInv, IntakeTypeOK
<1>3. /\ \A q \in Requests \ {r} : request'[q] = request[q]
      /\ request'[r].step = "written" /\ request'[r].inode = i
  BY <1>0 DEF WriteManifest, Step, IntakeInv, IntakeTypeOK, RequestStates
<1>4. \A q \in Requests : At(q, Writing)' <=> At(q, Writing)
  BY <1>1, <1>3 DEF At, Writing
<1>5. \A q \in Requests : request'[q].inode = request[q].inode
  BY <1>0, <1>3
<1>6. Fresh' /\ Distinct' /\ Owned'
  <2>1. Fresh /\ Distinct /\ Owned
    BY DEF IntakeInv
  <2>2. Fresh'
    BY <1>2, <1>4, <1>5, <2>1 DEF Fresh
  <2>3. Distinct'
    BY <1>2, <2>1 DEF Distinct
  <2>4. Owned'
    BY <1>2, <1>4, <1>5, <2>1 DEF Owned
  <2> QED
    BY <2>2, <2>3, <2>4
<1>7. ASSUME NEW w \in Versions, NEW j \in Inodes, Mending(j, w), j = i => w = Version[r]
      PROVE  Mending(j, w)'
  <2>1. CASE j = i
    BY <1>2, <1>7, <2>1 DEF Mending
  <2>2. CASE j # i
    BY <1>0, <1>2, <1>3, <1>7, <2>2 DEF Mending, At
  <2> QED
    BY <2>1, <2>2
<1>12. /\ \A w \in Versions : stored[w] = i => w = Version[r]
       /\ \A w \in Versions, p \in Pids : temp[w][p] = i => w = Version[r]
  BY <1>0, <1>1 DEF IntakeInv, Owned
<1>13. \A w \in Versions : stored[w] # 0 => stored[w] \in Inodes
  BY DEF IntakeInv, IntakeTypeOK, Inodes
<1>14. Pure'
  <2>1. \A w \in Versions, p \in Pids : temp[w][p] # 0 => temp[w][p] \in Inodes
    <3>1. \A w \in Versions, p \in Pids : temp[w][p] \in 0 .. MaxInodes
      BY DEF IntakeInv, IntakeTypeOK
    <3> QED
      BY <3>1 DEF Inodes
  <2>2. Pure
    BY DEF IntakeInv
  <2> QED
    BY <1>2, <1>12, <1>13, <2>1, <2>2 DEF Pure, Untouched
<1>8. Whole'
  <2>2. \A w \in Versions, p \in Pids : temp[w][p] # 0 => temp[w][p] \in Inodes
    <3>1. \A w \in Versions, p \in Pids : temp[w][p] \in 0 .. MaxInodes
      BY DEF IntakeInv, IntakeTypeOK
    <3> QED
      BY <3>1 DEF Inodes
  <2>4. ASSUME NEW w \in Versions, crashes = 0, stored[w] # 0, Untouched(stored[w])
        PROVE  Mending(stored[w], w)'
    <3>1. PICK j : j = stored[w]
      OBVIOUS
    <3>2. Mending(j, w)'
      BY <1>7, <1>12, <1>13, <2>4, <3>1 DEF Whole, IntakeInv
    <3> QED
      BY <1>2, <3>1, <3>2 DEF Mending
  <2>5. ASSUME NEW w \in Versions, NEW p \in Pids, crashes = 0, temp[w][p] # 0
        PROVE  Mending(temp[w][p], w)'
    <3>1. PICK j : j = temp[w][p]
      OBVIOUS
    <3>2. Mending(j, w)'
      BY <1>7, <1>12, <2>2, <2>5, <3>1 DEF Whole, IntakeInv
    <3> QED
      BY <1>2, <3>1, <3>2 DEF Mending
  <2> QED
    BY <1>2, <2>4, <2>5 DEF Whole, Untouched
<1>9. ASSUME ~shared
      PROVE  Unshared'
  <2>1. Unshared
    BY <1>9 DEF IntakeInv
  <2>2. ASSUME NEW q \in Requests, At(q, {"written"})'
        PROVE  content'[request'[q].inode] = Version[q]
    <3>1. CASE q = r
      BY <1>1, <1>2, <1>3, <3>1
    <3>2. CASE q # r
      <4>1. At(q, {"written"}) /\ At(q, Writing) /\ request'[q] = request[q]
        BY <1>3, <2>2, <3>2 DEF At, Writing
      <4>2. request[q].inode \in 1 .. inodes /\ request[q].inode \in Inodes
        <5>1. inodes \in 0 .. MaxInodes /\ Fresh
          BY DEF IntakeInv, IntakeTypeOK
        <5> QED
          BY <4>1, <5>1 DEF Fresh, Inodes
      <4>3. request[q].inode # i
        <5>1. Version[q] \in Versions /\ Pid[q] \in Pids /\ Version[r] \in Versions /\ Pid[r] \in Pids
          BY DEF Pids
        <5>2. temp[Version[q]][Pid[q]] = request[q].inode /\ temp[Version[r]][Pid[r]] = i
          BY <1>0, <1>1, <2>1, <4>1 DEF Unshared
        <5>3. ~(Version[q] = Version[r] /\ Pid[q] = Pid[r])
          BY <1>1, <2>1, <3>2, <4>1 DEF Unshared
        <5>4. Distinct /\ i # 0
          BY <1>1 DEF IntakeInv
        <5> QED
          BY <5>1, <5>2, <5>3, <5>4 DEF Distinct
      <4> QED
        BY <1>2, <2>1, <4>1, <4>2, <4>3 DEF Unshared
    <3> QED
      BY <3>1, <3>2
  <2>3. \A w \in Versions : stored'[w] # 0 /\ Untouched(stored[w])' => content'[stored'[w]] = w
    BY <1>2, <1>12, <1>13, <2>1 DEF Unshared, Untouched
  <2> QED
    BY <1>2, <1>4, <1>5, <2>1, <2>2, <2>3 DEF Unshared
<1>10. ASSUME NEW q \in Requests
       PROVE  Vouched(q)'
  <2>1. CASE q = r
    BY <1>3, <2>1 DEF Vouched, At
  <2>2. CASE q # r
    <3>1. stale' = stale \cup {k \in {x \in Requests : stored[Path[x]] = i /\ Version[x] # Version[r]} :
                               At(k, {"checked"})}
      BY <1>0 DEF WriteManifest, Outdate
    <3>2. ASSUME At(q, {"checked"}), q \notin stale', Present(q)'
          PROVE  Good(q, Found(q))' \/ (Present(q) /\ Found(q)' = Found(q))
      <4>1. Path[q] \in Versions /\ stored[Path[q]] \in Inodes /\ stored' = stored /\ Present(q)
        BY <1>2, <1>13, <3>2 DEF Present
      <4>2. CASE stored[Path[q]] = i
        <5>1. Version[q] = Version[r]
          BY <3>1, <3>2, <4>2
        <5> QED
          BY <1>2, <4>1, <4>2, <5>1 DEF Good, Found
      <4>3. CASE stored[Path[q]] # i
        BY <1>2, <4>1, <4>3 DEF Found
      <4> QED
        BY <4>2, <4>3
    <3> QED
      BY <1>2, <1>3, <2>2, <3>1, <3>2, VouchedKept
  <2> QED
    BY <2>1, <2>2
<1>11. RowIsVerified'
  BY <1>2 DEF RowIsVerified, IntakeInv
<1> QED
  BY <1>2, <1>6, <1>8, <1>9, <1>10, <1>11, <1>14 DEF IntakeInv

\* Renaming what has the temporary name.
LEMMA ReplaceKeepsInv ==
  ASSUME IntakeInv, IntakeTypeOK', NEW r \in Requests, ReplaceManifest(r)
  PROVE  IntakeInv'
<1> USE IntakeAssumption
<1> DEFINE v == Version[r]
           p == Pid[r]
<1>0. PICK i : i = temp[v][p]
  OBVIOUS
<1>1. v \in Versions /\ p \in Pids
  BY DEF Pids
<1>2. At(r, Writing) /\ At(r, {"written"}) /\ UNCHANGED <<content, inodes, upload, row, shared, crashes>>
  BY DEF ReplaceManifest, At, Writing
<1>3. /\ \A q \in Requests \ {r} : request'[q] = request[q]
      /\ request'[r].step \in {"fetched", "refused"}
  BY DEF ReplaceManifest, Step, IntakeInv, IntakeTypeOK, RequestStates
<1>4. \A q \in Requests : At(q, Writing)' => q # r /\ At(q, Writing) /\ request'[q] = request[q]
  BY <1>3 DEF At, Writing
<1>5. CASE i = 0
  <2>1. UNCHANGED <<stored, temp, stale>>
    BY <1>0, <1>5 DEF ReplaceManifest
  <2>2. ~At(r, Writing)' /\ ~At(r, {"opened"}) /\ Vouched(r)'
    BY <1>2, <1>3 DEF At, Writing, Vouched
  <2> QED
    BY <1>2, <1>3, <2>1, <2>2, RequestAside DEF FilesSame
<1>6. CASE i # 0
  <2>1. /\ \A w \in Versions : stored'[w] = IF w = v THEN i ELSE stored[w]
        /\ \A w \in Versions, q \in Pids : temp'[w][q] = IF w = v /\ q = p THEN 0 ELSE temp[w][q]
    BY <1>0, <1>1, <1>6 DEF ReplaceManifest, IntakeInv, IntakeTypeOK
  <2> HIDE DEF v, p
  <2>2. /\ inodes \in Nat /\ i \in 1 .. inodes
        /\ \A w \in Versions : stored[w] \in 0 .. inodes
        /\ \A w \in Versions, q \in Pids : temp[w][q] \in 0 .. inodes
    BY <1>0, <1>1, <1>6 DEF IntakeInv, IntakeTypeOK, Fresh
  <2>3. Distinct /\ Owned /\ Fresh
    BY DEF IntakeInv
  <2>4. Fresh'
    BY <1>2, <1>4, <2>1, <2>2, <2>3, SMTT(30) DEF Fresh
  <2>5. Distinct'
    <3>1. \A w \in Versions : stored[w] # i
      BY <1>0, <1>1, <1>6, <2>3 DEF Distinct
    <3>2. \A w \in Versions, q \in Pids : temp[w][q] = i => w = v /\ q = p
      BY <1>0, <1>1, <1>6, <2>3 DEF Distinct
    <3>3. \A w, x \in Versions : stored'[w] # 0 /\ stored'[w] = stored'[x] => w = x
      <4>1. \A w, x \in Versions : stored[w] # 0 /\ stored[w] = stored[x] => w = x
        BY <2>3 DEF Distinct
      <4> QED
        BY <1>6, <2>1, <3>1, <4>1
    <3>4. ASSUME NEW w \in Versions, NEW x \in Versions, NEW q \in Pids, stored'[w] # 0
          PROVE  stored'[w] # temp'[x][q]
      <4>1. stored[w] # 0 => stored[w] # temp[x][q]
        BY <2>3 DEF Distinct
      <4> QED
        BY <1>6, <2>1, <3>2, <3>4, <4>1
    <3>5. ASSUME NEW w \in Versions, NEW x \in Versions, NEW q \in Pids, NEW k \in Pids,
                 temp'[w][q] # 0, temp'[w][q] = temp'[x][k]
          PROVE  w = x /\ q = k
      <4>1. temp'[w][q] = temp[w][q] /\ temp'[x][k] = temp[x][k]
        BY <2>1, <3>5
      <4>2. temp[w][q] # 0 /\ temp[w][q] = temp[x][k]
        BY <3>5, <4>1
      <4>3. \A a, b \in Versions, c, d \in Pids :
              temp[a][c] # 0 /\ temp[a][c] = temp[b][d] => a = b /\ c = d
        BY <2>3 DEF Distinct
      <4> QED
        BY <4>2, <4>3
    <3> QED
      BY <3>3, <3>4, <3>5 DEF Distinct
  <2>6. Owned'
    <3>1. ASSUME NEW q \in Requests, NEW w \in Versions, At(q, Writing)'
          PROVE  /\ stored'[w] = request'[q].inode => Version[q] = w
                 /\ \A k \in Pids : temp'[w][k] = request'[q].inode => Version[q] = w
      <4>1. At(q, Writing) /\ request'[q].inode = request[q].inode /\ request[q].inode # 0
        BY <1>4, <2>2, <2>3, <3>1 DEF Fresh
      <4> QED
        BY <1>0, <1>1, <2>1, <2>3, <3>1, <4>1 DEF Owned
    <3> QED
      BY <3>1 DEF Owned
  <2>12. content[i] \in {v, "torn"} /\ Untouched(i)
    BY <1>0, <1>1, <1>6 DEF IntakeInv, Pure
  <2>13. Pure'
    <3>1. Pure
      BY DEF IntakeInv
    <3> QED
      BY <1>2, <2>1, <2>12, <3>1 DEF Pure, Untouched
  <2>7. ASSUME NEW j, NEW w, Mending(j, w)
        PROVE  Mending(j, w)'
    BY <1>2, <1>3, <2>7 DEF Mending, At
  <2>8. Whole'
    <3>1. ASSUME NEW w \in Versions, crashes = 0, stored'[w] # 0, Untouched(stored[w])'
          PROVE  Mending(stored[w], w)'
      <4>1. PICK j : j = stored'[w]
        OBVIOUS
      <4>3. Untouched(j)
        BY <1>2, <3>1, <4>1 DEF Untouched
      <4>2. Mending(j, w)'
        BY <1>0, <1>1, <1>6, <2>1, <2>7, <3>1, <4>1, <4>3 DEF Whole, IntakeInv
      <4> QED
        BY <4>1, <4>2 DEF Mending
    <3>2. ASSUME NEW w \in Versions, NEW q \in Pids, crashes = 0, temp'[w][q] # 0
          PROVE  Mending(temp[w][q], w)'
      <4>1. PICK j : j = temp'[w][q]
        OBVIOUS
      <4>2. j = temp[w][q]
        BY <2>1, <3>2, <4>1
      <4>3. Mending(j, w)'
        BY <2>7, <3>2, <4>1, <4>2 DEF Whole, IntakeInv
      <4> QED
        BY <4>1, <4>3 DEF Mending
    <3> QED
      BY <1>2, <3>1, <3>2 DEF Whole
  <2>9. ASSUME ~shared
        PROVE  Unshared'
    <3>1. Unshared
      BY <2>9 DEF IntakeInv
    <3>2. ASSUME NEW q \in Requests, At(q, Writing)'
          PROVE  temp'[Version[q]][Pid[q]] = request'[q].inode
      <4>1. q # r /\ At(q, Writing) /\ request'[q] = request[q]
        BY <1>4, <3>2
      <4>2. ~(Version[q] = v /\ Pid[q] = p)
        BY <1>2, <3>1, <4>1 DEF Unshared, v, p
      <4>3. Version[q] \in Versions /\ Pid[q] \in Pids
        BY DEF Pids
      <4> QED
        BY <2>1, <3>1, <4>1, <4>2, <4>3 DEF Unshared
    <3>3. \A q \in Requests : At(q, {"written"})' => content'[request'[q].inode] = Version[q]
      BY <1>2, <1>3, <3>1 DEF Unshared, At
    <3>4. content[i] = v
      BY <1>0, <1>2, <3>1 DEF Unshared, v, p
    <3>5. \A w \in Versions : stored'[w] # 0 /\ Untouched(stored[w])' => content'[stored'[w]] = w
      BY <1>2, <2>1, <3>1, <3>4 DEF Unshared, Untouched
    <3>6. \A q, k \in Requests : At(q, Writing)' /\ At(k, Writing)' /\ q # k =>
            ~(Version[q] = Version[k] /\ Pid[q] = Pid[k])
      BY <1>4, <3>1 DEF Unshared
    <3> QED
      BY <3>2, <3>3, <3>5, <3>6 DEF Unshared
  <2>10. ASSUME NEW q \in Requests
         PROVE  Vouched(q)'
    <3>1. CASE q = r
      BY <1>3, <3>1 DEF Vouched, At
    <3>2. CASE q # r
      <4>1. stale' = stale \cup {k \in {x \in Requests : Path[x] = v /\ Version[x] # v} :
                                 At(k, {"checked"})}
        BY <1>0, <1>6 DEF ReplaceManifest, Outdate, v, p
      <4>2. ASSUME At(q, {"checked"}), q \notin stale', Present(q)'
            PROVE  Good(q, Found(q))' \/ (Present(q) /\ Found(q)' = Found(q))
        <5>1. CASE Path[q] # v
          BY <1>2, <2>1, <4>2, <5>1 DEF Present, Found
        <5>2. CASE Path[q] = v
          <6>1. Version[q] = v /\ Found(q)' = content[i]
            BY <1>1, <1>2, <2>1, <4>1, <4>2, <5>2 DEF Found
          <6>2. ~shared => content[i] = v
            BY <1>0, <1>2 DEF IntakeInv, Unshared, v, p
          <6> QED
            BY <1>2, <2>12, <6>1, <6>2 DEF Good
        <5> QED
          BY <5>1, <5>2
      <4> QED
        BY <1>2, <1>3, <3>2, <4>1, <4>2, VouchedKept
    <3> QED
      BY <3>1, <3>2
  <2>11. RowIsVerified'
    BY <1>2 DEF RowIsVerified, IntakeInv
  <2> QED
    BY <1>2, <2>4, <2>5, <2>6, <2>8, <2>9, <2>10, <2>11, <2>13 DEF IntakeInv
<1> QED
  BY <1>5, <1>6

\* An upload opens what has the name, or makes a new file.
LEMMA BeginKeepsInv ==
  ASSUME IntakeInv, IntakeTypeOK', NEW u \in Uploads, BeginUpload(u)
  PROVE  IntakeInv'
<1> USE IntakeAssumption
<1> DEFINE v == Target[u]
<1>0. PICK i : i = IF stored[v] = 0 THEN inodes + 1 ELSE stored[v]
  OBVIOUS
<1>1. v \in Versions
  OBVIOUS
<1>2. /\ inodes \in 0 .. MaxInodes /\ MaxInodes \in Nat
      /\ \A w \in Versions : stored[w] \in 0 .. inodes
      /\ \A w \in Versions, q \in Pids : temp[w][q] \in 0 .. inodes
      /\ \A x \in Uploads : upload[x].inode \in 0 .. inodes
  BY DEF IntakeInv, IntakeTypeOK, Fresh
<1>3. /\ stored' = [stored EXCEPT ![v] = i]
      /\ content' = [content EXCEPT ![i] = "torn"]
      /\ inodes' = IF stored[v] = 0 THEN inodes + 1 ELSE inodes
      /\ upload' = [upload EXCEPT ![u] = [step |-> "writing", inode |-> i]]
      /\ stale' = stale \cup {k \in {x \in Requests : Path[x] = v} : At(k, {"checked"})}
      /\ i <= MaxInodes /\ upload[u].step = "new"
      /\ UNCHANGED <<temp, request, row, shared, crashes>>
  BY <1>0 DEF BeginUpload, Outdate
<1> HIDE DEF v
<1>4. /\ i \in 1 .. inodes' /\ i \in Inodes /\ inodes <= inodes' /\ inodes' \in Nat
      /\ i = stored[v] \/ (stored[v] = 0 /\ i = inodes + 1)
  BY <1>0, <1>1, <1>2, <1>3 DEF Inodes
<1>5. /\ \A w \in Versions : stored'[w] = IF w = v THEN i ELSE stored[w]
      /\ \A j \in Inodes : content'[j] = IF j = i THEN "torn" ELSE content[j]
      /\ \A x \in Uploads : upload'[x] = IF x = u THEN [step |-> "writing", inode |-> i] ELSE upload[x]
  BY <1>1, <1>3, <1>4 DEF IntakeInv, IntakeTypeOK
<1>6. /\ \A q \in Requests : \A S : At(q, S)' <=> At(q, S)
      /\ \A j, w : Mending(j, w) /\ content'[j] = content[j] => Mending(j, w)'
  BY <1>3 DEF At, Mending
<1>7. Fresh'
  <2>1. \A w \in Versions : stored'[w] <= inodes'
    BY <1>2, <1>4, <1>5
  <2>2. \A w \in Versions, q \in Pids : temp'[w][q] <= inodes'
    BY <1>2, <1>3, <1>4
  <2>3. \A q \in Requests : At(q, Writing)' => request'[q].inode \in 1 .. inodes'
    <3>1. \A q \in Requests : At(q, Writing) => request[q].inode \in 1 .. inodes
      BY DEF IntakeInv, Fresh
    <3> QED
      BY <1>2, <1>3, <1>4, <1>6, <3>1
  <2>4. ASSUME NEW x \in Uploads
        PROVE  upload'[x].inode <= inodes' /\ (upload'[x].step = "new" <=> upload'[x].inode = 0)
    <3>1. CASE x = u
      BY <1>4, <1>5, <3>1
    <3>2. CASE x # u
      BY <1>2, <1>4, <1>5, <3>2 DEF IntakeInv, Fresh
    <3> QED
      BY <3>1, <3>2
  <2> QED
    BY <2>1, <2>2, <2>3, <2>4 DEF Fresh
<1>8. /\ \A w \in Versions : w # v => stored[w] # i
      /\ \A w \in Versions, q \in Pids : temp[w][q] # i
  BY <1>1, <1>2, <1>4 DEF IntakeInv, Distinct
<1>9. Distinct'
  <2>1. Distinct
    BY DEF IntakeInv
  <2>2. \A w, x \in Versions : stored'[w] # 0 /\ stored'[w] = stored'[x] => w = x
    BY <1>4, <1>5, <1>8, <2>1 DEF Distinct
  <2>3. \A w, x \in Versions, q \in Pids : stored'[w] # 0 => stored'[w] # temp'[x][q]
    BY <1>3, <1>5, <1>8, <2>1 DEF Distinct
  <2>4. \A w, x \in Versions, q, k \in Pids :
          temp'[w][q] # 0 /\ temp'[w][q] = temp'[x][k] => w = x /\ q = k
    BY <1>3, <2>1 DEF Distinct
  <2> QED
    BY <2>2, <2>3, <2>4 DEF Distinct
<1>10. Owned'
  <2>1. ASSUME NEW q \in Requests, NEW w \in Versions, At(q, Writing)
        PROVE  /\ stored'[w] = request[q].inode => Version[q] = w
               /\ \A k \in Pids : temp[w][k] = request[q].inode => Version[q] = w
    <3>1. request[q].inode \in 1 .. inodes
      BY <2>1 DEF IntakeInv, Fresh
    <3> QED
      BY <1>2, <1>4, <1>5, <2>1, <3>1 DEF IntakeInv, Owned
  <2> QED
    BY <1>3, <1>6, <2>1 DEF Owned
\* What no upload has opened is as it was.
<1>11. ASSUME NEW w \in Versions, stored'[w] # 0, Untouched(stored[w])'
       PROVE  /\ stored'[w] = stored[w] /\ Untouched(stored[w])
              /\ content'[stored[w]] = content[stored[w]]
  <2>1. PICK j : j = stored'[w]
    OBVIOUS
  <2>2. \A x \in Uploads : upload'[x].inode # j
    BY <1>11, <2>1 DEF Untouched
  <2>3. j # i
    BY <1>5, <2>2
  <2>4. w # v /\ j = stored[w] /\ j \in Inodes
    BY <1>2, <1>5, <1>11, <2>1, <2>3 DEF Inodes
  <2>5. \A x \in Uploads : upload[x].inode # j
    <3>1. upload[u].inode = 0
      BY <1>3 DEF IntakeInv, Fresh
    <3> QED
      BY <1>5, <1>11, <2>1, <2>2, <3>1
  <2> QED
    BY <1>5, <2>1, <2>3, <2>4, <2>5 DEF Untouched
<1>12. ASSUME NEW w \in Versions, NEW p \in Pids, temp[w][p] # 0
       PROVE  /\ temp[w][p] \in Inodes /\ content'[temp[w][p]] = content[temp[w][p]]
              /\ Untouched(temp[w][p])'
  <2>1. temp[w][p] \in Inodes /\ temp[w][p] # i
    BY <1>2, <1>8, <1>12 DEF Inodes
  <2>2. Untouched(temp[w][p])
    BY <1>12 DEF IntakeInv, Pure
  <2> QED
    BY <1>3, <1>5, <2>1, <2>2 DEF Untouched
<1>13. Pure'
  <2>1. Pure
    BY DEF IntakeInv
  <2>2. \A w \in Versions :
          stored'[w] # 0 /\ Untouched(stored[w])' => content'[stored'[w]] \in {w, "torn"}
    BY <1>11, <2>1 DEF Pure
  <2>3. \A w \in Versions, p \in Pids : temp'[w][p] # 0 =>
          Untouched(temp[w][p])' /\ content'[temp'[w][p]] \in {w, "torn"}
    BY <1>3, <1>12, <2>1 DEF Pure
  <2> QED
    BY <2>2, <2>3 DEF Pure
<1>14. Whole'
  <2>1. ASSUME NEW w \in Versions, crashes = 0, stored'[w] # 0, Untouched(stored[w])'
        PROVE  Mending(stored[w], w)'
    <3>1. Mending(stored[w], w) /\ stored'[w] = stored[w]
      BY <1>11, <2>1 DEF IntakeInv, Whole
    <3>2. content'[stored[w]] = content[stored[w]]
      BY <1>11, <2>1
    <3>3. PICK j : j = stored[w]
      OBVIOUS
    <3>4. Mending(j, w)'
      BY <1>6, <3>1, <3>2, <3>3
    <3> QED
      BY <3>1, <3>3, <3>4 DEF Mending
  <2>2. ASSUME NEW w \in Versions, NEW p \in Pids, crashes = 0, temp[w][p] # 0
        PROVE  Mending(temp[w][p], w)'
    <3>1. Mending(temp[w][p], w) /\ content'[temp[w][p]] = content[temp[w][p]]
      BY <1>12, <2>2 DEF IntakeInv, Whole
    <3>2. PICK j : j = temp[w][p]
      OBVIOUS
    <3>3. Mending(j, w)'
      BY <1>6, <3>1, <3>2
    <3> QED
      BY <1>3, <3>2, <3>3 DEF Mending
  <2> QED
    BY <1>3, <2>1, <2>2 DEF Whole
<1>15. ASSUME ~shared
       PROVE  Unshared'
  <2>1. Unshared
    BY <1>15 DEF IntakeInv
  <2>2. ASSUME NEW q \in Requests, At(q, {"written"})
        PROVE  content'[request[q].inode] = Version[q]
    <3>1. At(q, Writing) /\ Version[q] \in Versions /\ Pid[q] \in Pids
      BY <2>2 DEF At, Writing, Pids
    <3>2. temp[Version[q]][Pid[q]] = request[q].inode /\ request[q].inode \in 1 .. inodes
      BY <2>1, <3>1 DEF Unshared, IntakeInv, Fresh
    <3>3. temp[Version[q]][Pid[q]] # 0
      BY <1>2, <3>2
    <3> QED
      BY <1>12, <2>1, <2>2, <3>1, <3>2, <3>3 DEF Unshared
  <2>3. \A w \in Versions : stored'[w] # 0 /\ Untouched(stored[w])' => content'[stored'[w]] = w
    BY <1>11, <2>1 DEF Unshared
  <2> QED
    BY <1>3, <1>6, <2>1, <2>2, <2>3 DEF Unshared
<1>16. ASSUME NEW q \in Requests PROVE Vouched(q)'
  <2>1. ASSUME At(q, {"checked"}), q \notin stale', Present(q)'
        PROVE  Present(q) /\ Found(q)' = Found(q)
    <3>1. Path[q] # v /\ Path[q] \in Versions
      BY <1>3, <2>1
    <3>2. stored'[Path[q]] = stored[Path[q]] /\ stored[Path[q]] # i /\ stored[Path[q]] # 0
      BY <1>5, <1>8, <2>1, <3>1 DEF Present
    <3>3. stored[Path[q]] \in Inodes
      BY <1>2, <3>1, <3>2 DEF Inodes
    <3> QED
      BY <1>5, <3>2, <3>3 DEF Present, Found
  <2> QED
    BY <1>3, <2>1, VouchedKept
<1>17. RowIsVerified'
  BY <1>3 DEF RowIsVerified, IntakeInv
<1> QED
  BY <1>3, <1>7, <1>9, <1>10, <1>13, <1>14, <1>15, <1>16, <1>17 DEF IntakeInv

\* An upload writes the file it opened, which no fetch calls its own.
LEMMA ChunkKeepsInv ==
  ASSUME IntakeInv, IntakeTypeOK', NEW u \in Uploads, WriteUpload(u)
  PROVE  IntakeInv'
<1> USE IntakeAssumption
<1>0. PICK i : i = upload[u].inode
  OBVIOUS
<1>1. PICK c \in Manifests : content' = [content EXCEPT ![i] = c]
  BY <1>0 DEF WriteUpload
<1>2. /\ stale' = stale \cup {k \in {x \in Requests : stored[Path[x]] = i} : At(k, {"checked"})}
      /\ UNCHANGED <<stored, temp, inodes, request, upload, row, shared, crashes>>
  BY <1>0 DEF WriteUpload, Outdate
<1>3. \A j \in Inodes : j # i => content'[j] = content[j]
  BY <1>1 DEF IntakeInv, IntakeTypeOK
<1>4. /\ \A w \in Versions : stored[w] # 0 => stored[w] \in Inodes
      /\ \A w \in Versions, p \in Pids : temp[w][p] # 0 => temp[w][p] \in Inodes
  <2>1. \A w \in Versions : stored[w] \in 0 .. MaxInodes
    BY DEF IntakeInv, IntakeTypeOK
  <2>2. \A w \in Versions, p \in Pids : temp[w][p] \in 0 .. MaxInodes
    BY DEF IntakeInv, IntakeTypeOK
  <2> QED
    BY <2>1, <2>2 DEF Inodes
<1>5. Fresh' /\ Distinct' /\ Owned'
  BY <1>2 DEF IntakeInv, Fresh, Distinct, Owned, At
<1>6. /\ \A w \in Versions : stored[w] # 0 /\ Untouched(stored[w]) =>
           content'[stored[w]] = content[stored[w]]
      /\ \A w \in Versions, p \in Pids : temp[w][p] # 0 =>
           Untouched(temp[w][p]) /\ content'[temp[w][p]] = content[temp[w][p]]
  <2>1. \A j \in Inodes : Untouched(j) => content'[j] = content[j]
    BY <1>0, <1>3 DEF Untouched
  <2> QED
    BY <1>4, <2>1 DEF IntakeInv, Pure
<1>7. \A j : Untouched(j)' <=> Untouched(j)
  BY <1>2 DEF Untouched
<1>8. Pure'
  BY <1>2, <1>6 DEF IntakeInv, Pure, Untouched
<1>9. Whole'
  <2>1. \A j, w : Mending(j, w) /\ content'[j] = content[j] => Mending(j, w)'
    BY <1>2 DEF Mending, At
  <2>2. ASSUME NEW w \in Versions, crashes = 0, stored[w] # 0, Untouched(stored[w])
        PROVE  Mending(stored[w], w)'
    <3>1. PICK j : j = stored[w]
      OBVIOUS
    <3>2. Mending(j, w) /\ content'[j] = content[j]
      BY <1>6, <2>2, <3>1 DEF IntakeInv, Whole
    <3>3. Mending(j, w)'
      BY <2>1, <3>2
    <3> QED
      BY <1>2, <3>1, <3>3 DEF Mending
  <2>3. ASSUME NEW w \in Versions, NEW p \in Pids, crashes = 0, temp[w][p] # 0
        PROVE  Mending(temp[w][p], w)'
    <3>1. PICK j : j = temp[w][p]
      OBVIOUS
    <3>2. Mending(j, w) /\ content'[j] = content[j]
      BY <1>6, <2>3, <3>1 DEF IntakeInv, Whole
    <3>3. Mending(j, w)'
      BY <2>1, <3>2
    <3> QED
      BY <1>2, <3>1, <3>3 DEF Mending
  <2> QED
    BY <1>2, <2>2, <2>3 DEF Whole, Untouched
<1>10. ASSUME ~shared
       PROVE  Unshared'
  <2>1. Unshared
    BY <1>10 DEF IntakeInv
  <2>2. ASSUME NEW q \in Requests, At(q, {"written"})
        PROVE  content'[request[q].inode] = Version[q]
    <3>1. At(q, Writing) /\ Version[q] \in Versions /\ Pid[q] \in Pids
      BY <2>2 DEF At, Writing, Pids
    <3>2. temp[Version[q]][Pid[q]] = request[q].inode /\ request[q].inode # 0
      BY <2>1, <3>1 DEF Unshared, IntakeInv, Fresh
    <3> QED
      BY <1>6, <2>1, <2>2, <3>1, <3>2 DEF Unshared
  <2> QED
    BY <1>2, <1>6, <2>1, <2>2 DEF Unshared, Untouched, At
<1>11. ASSUME NEW q \in Requests PROVE Vouched(q)'
  <2>1. ASSUME At(q, {"checked"}), q \notin stale', Present(q)'
        PROVE  Present(q) /\ Found(q)' = Found(q)
    <3>1. Path[q] \in Versions /\ Present(q)
      BY <1>2, <2>1 DEF Present
    <3>2. stored[Path[q]] # i
      BY <1>2, <2>1
    <3> QED
      BY <1>2, <1>3, <1>4, <3>1, <3>2 DEF Present, Found
  <2> QED
    BY <1>2, <2>1, VouchedKept
<1>12. RowIsVerified'
  BY <1>2 DEF RowIsVerified, IntakeInv
<1> QED
  BY <1>2, <1>5, <1>8, <1>9, <1>10, <1>11, <1>12 DEF IntakeInv

\* A refused upload takes the name away.
LEMMA RefuseKeepsInv ==
  ASSUME IntakeInv, IntakeTypeOK', NEW u \in Uploads, RefuseUpload(u)
  PROVE  IntakeInv'
<1> USE IntakeAssumption
<1>1. /\ stored' = [stored EXCEPT ![Target[u]] = 0]
      /\ upload' = [upload EXCEPT ![u].step = "refused"] /\ upload[u].step = "writing"
      /\ UNCHANGED <<temp, content, inodes, request, row, shared, stale, crashes>>
  BY DEF RefuseUpload
<1>2. /\ \A w \in Versions : stored'[w] = IF w = Target[u] THEN 0 ELSE stored[w]
      /\ \A x \in Uploads : upload'[x].inode = upload[x].inode
      /\ \A x \in Uploads : upload'[x].step = "new" <=> upload[x].step = "new"
  BY <1>1 DEF IntakeInv, IntakeTypeOK
<1>3. \A j : Untouched(j)' <=> Untouched(j)
  BY <1>2 DEF Untouched
<1>4. Fresh'
  <2>1. inodes \in Nat /\ Fresh
    BY DEF IntakeInv, IntakeTypeOK
  <2> QED
    BY <1>1, <1>2, <2>1 DEF Fresh, At
<1>5. Distinct'
  BY <1>1, <1>2 DEF IntakeInv, Distinct
<1>6. Owned'
  <2>1. \A q \in Requests : At(q, Writing) => request[q].inode # 0
    BY DEF IntakeInv, Fresh
  <2> QED
    BY <1>1, <1>2, <2>1 DEF IntakeInv, Owned, At
<1>7. ASSUME NEW w \in Versions, stored'[w] # 0
      PROVE  stored'[w] = stored[w] /\ (Untouched(stored[w])' => Untouched(stored[w]))
  BY <1>2, <1>7 DEF Untouched
<1>8. Pure'
  <2>1. Pure
    BY DEF IntakeInv
  <2>2. \A w \in Versions : stored'[w] # 0 /\ Untouched(stored[w])' => content'[stored'[w]] \in {w, "torn"}
    BY <1>1, <1>7, <2>1 DEF Pure
  <2>3. \A w \in Versions, p \in Pids : temp'[w][p] # 0 =>
          Untouched(temp[w][p])' /\ content'[temp'[w][p]] \in {w, "torn"}
    BY <1>1, <1>2, <2>1 DEF Pure, Untouched
  <2> QED
    BY <2>2, <2>3 DEF Pure
<1>9. Whole'
  <2>1. Whole
    BY DEF IntakeInv
  <2>2. ASSUME NEW w \in Versions, crashes = 0, stored'[w] # 0, Untouched(stored[w])'
        PROVE  Mending(stored[w], w)'
    BY <1>1, <1>7, <2>1, <2>2 DEF Whole, Mending, At
  <2>3. ASSUME NEW w \in Versions, NEW p \in Pids, crashes = 0, temp[w][p] # 0
        PROVE  Mending(temp[w][p], w)'
    BY <1>1, <2>1, <2>3 DEF Whole, Mending, At
  <2> QED
    BY <1>1, <2>2, <2>3 DEF Whole
<1>10. ASSUME ~shared
       PROVE  Unshared'
  <2>1. Unshared
    BY <1>10 DEF IntakeInv
  <2>2. \A w \in Versions : stored'[w] # 0 /\ Untouched(stored[w])' => content'[stored'[w]] = w
    BY <1>1, <1>7, <2>1 DEF Unshared
  <2> QED
    BY <1>1, <2>1, <2>2 DEF Unshared, At
<1>11. ASSUME NEW q \in Requests PROVE Vouched(q)'
  <2>1. ASSUME Present(q)'
        PROVE  Present(q) /\ Found(q)' = Found(q)
    BY <1>1, <1>2, <2>1 DEF Present, Found
  <2> QED
    BY <1>1, <2>1, VouchedKept
<1>12. RowIsVerified'
  BY <1>1 DEF RowIsVerified, IntakeInv
<1> QED
  BY <1>1, <1>4, <1>5, <1>6, <1>8, <1>9, <1>10, <1>11, <1>12 DEF IntakeInv

\* Every step keeps the invariant.
LEMMA IntakeStep ==
  ASSUME IntakeInv, [IntakeNext]_intakeVars
  PROVE  IntakeInv'
<1> USE IntakeAssumption
<1>1. IntakeTypeOK'
  BY IntakeTypesKept DEF IntakeInv
<1>2. CASE UNCHANGED intakeVars
  BY <1>2
     DEF intakeVars, IntakeInv, IntakeTypeOK, Fresh, Distinct, Owned, Untouched, Pure, Whole, Mending,
         Unshared, Good, Vouched, Found, RowIsVerified, At
<1>14. ASSUME NEW u \in Uploads, BeginUpload(u) \/ WriteUpload(u) \/ RefuseUpload(u)
       PROVE  IntakeInv'
  BY <1>1, <1>14, BeginKeepsInv, ChunkKeepsInv, RefuseKeepsInv
<1> SUFFICES ASSUME NEW r \in Requests,
                    \/ Receive(r) \/ RetryGet(r) \/ GiveUp(r) \/ GetReference(r) \/ OpenTemporary(r)
                    \/ WriteManifest(r) \/ ReplaceManifest(r) \/ CheckDigest(r) \/ CountRows(r)
                    \/ RefuseManifest(r) \/ UpsertDataset(r) \/ Crash(r)
             PROVE  IntakeInv'
  BY <1>2, <1>14 DEF IntakeNext
<1>3. request \in [Requests -> RequestStates] /\ crashes \in Nat
  BY DEF IntakeInv, IntakeTypeOK
<1>4. Vouched(r)
  BY DEF IntakeInv
<1>5. CASE Receive(r)
  <2>1. /\ \A q \in Requests \ {r} : request'[q] = request[q]
        /\ request'[r].step \in {"asked", "checked", "fetched"}
        /\ request'[r].step = "checked" => Kind[r] = "legacy"
    BY <1>3, <1>5 DEF Receive, Step, RequestStates
  <2>2. ~At(r, Writing) /\ ~At(r, Writing)' /\ ~At(r, {"opened"})
    BY <1>5, <2>1 DEF Receive, At, Writing
  <2>3. Vouched(r)'
    BY <2>1 DEF Vouched, At
  <2> QED
    BY <1>1, <1>5, <2>1, <2>2, <2>3, RequestAside DEF Receive, FilesSame
<1>6. CASE RetryGet(r)
  <2>1. /\ \A q \in Requests \ {r} : request'[q] = request[q]
        /\ request'[r].step \in {"asked", "referenced"}
    BY <1>3, <1>6 DEF RetryGet, RequestStates, At, Unanswered
  <2>2. ~At(r, Writing) /\ ~At(r, Writing)' /\ ~At(r, {"opened"})
    BY <1>6, <2>1 DEF RetryGet, At, Writing, Unanswered
  <2>3. Vouched(r)'
    BY <2>1 DEF Vouched, At
  <2> QED
    BY <1>1, <1>6, <2>1, <2>2, <2>3, RequestAside DEF RetryGet, FilesSame
<1>7. CASE GiveUp(r)
  <2>1. /\ \A q \in Requests \ {r} : request'[q] = request[q]
        /\ request'[r].step = "refused"
    BY <1>3, <1>7 DEF GiveUp, Step, RequestStates
  <2>2. ~At(r, Writing) /\ ~At(r, Writing)' /\ ~At(r, {"opened"})
    BY <1>7, <2>1 DEF GiveUp, At, Writing, Unanswered
  <2>3. Vouched(r)'
    BY <2>1 DEF Vouched, At
  <2> QED
    BY <1>1, <1>7, <2>1, <2>2, <2>3, RequestAside DEF GiveUp, FilesSame
<1>8. CASE GetReference(r)
  <2>1. /\ \A q \in Requests \ {r} : request'[q] = request[q]
        /\ request'[r].step = "referenced"
    BY <1>3, <1>8 DEF GetReference, Step, RequestStates
  <2>2. ~At(r, Writing) /\ ~At(r, Writing)' /\ ~At(r, {"opened"})
    BY <1>8, <2>1 DEF GetReference, At, Writing
  <2>3. Vouched(r)'
    BY <2>1 DEF Vouched, At
  <2> QED
    BY <1>1, <1>8, <2>1, <2>2, <2>3, RequestAside DEF GetReference, FilesSame
<1>9. CASE CheckDigest(r)
  <2>1. /\ \A q \in Requests \ {r} : request'[q] = request[q]
        /\ request'[r].step \in {"refused", "trained", "checked"}
        /\ request'[r].step = "checked" => Present(r) /\ Found(r) = Version[r]
    BY <1>3, <1>9 DEF CheckDigest, Step, RequestStates
  <2>2. ~At(r, Writing) /\ ~At(r, Writing)' /\ ~At(r, {"opened"})
    BY <1>9, <2>1 DEF CheckDigest, At, Writing
  <2>3. Vouched(r)'
    <3>1. Found(r)' = Found(r)
      BY <1>9 DEF CheckDigest, FilesSame, Found
    <3> QED
      BY <2>1, <3>1 DEF Vouched, At, Good
  <2> QED
    BY <1>1, <1>9, <2>1, <2>2, <2>3, RequestAside DEF CheckDigest, FilesSame
<1>10. CASE CountRows(r)
  <2>1. /\ \A q \in Requests \ {r} : request'[q] = request[q]
        /\ request'[r].step = "counted" /\ request'[r].counted = Found(r)
    BY <1>3, <1>10 DEF CountRows, RequestStates
  <2>2. ~At(r, Writing) /\ ~At(r, Writing)' /\ ~At(r, {"opened"})
    BY <1>10, <2>1 DEF CountRows, At, Writing
  <2>3. Vouched(r)'
    <3>1. At(r, {"checked"}) /\ Present(r)
      BY <1>10 DEF CountRows
    <3> QED
      BY <1>4, <1>10, <2>1, <3>1 DEF Vouched, At, Good, Present, CountRows
  <2> QED
    BY <1>1, <1>10, <2>1, <2>2, <2>3, RequestAside DEF CountRows, FilesSame
<1>11. CASE RefuseManifest(r)
  <2>1. /\ \A q \in Requests \ {r} : request'[q] = request[q]
        /\ request'[r].step = "refused"
    BY <1>3, <1>11 DEF RefuseManifest, Step, RequestStates
  <2>2. ~At(r, Writing) /\ ~At(r, Writing)' /\ ~At(r, {"opened"})
    BY <1>11, <2>1 DEF RefuseManifest, At, Writing
  <2>3. Vouched(r)'
    BY <2>1 DEF Vouched, At
  <2> QED
    BY <1>1, <1>11, <2>1, <2>2, <2>3, RequestAside DEF RefuseManifest, FilesSame
<1>12. CASE Crash(r)
  <2>1. /\ \A q \in Requests \ {r} : request'[q] = request[q]
        /\ request'[r].step = "dead"
    BY <1>3, <1>12 DEF Crash, Step, RequestStates
  <2>2. ~At(r, Writing)' /\ crashes' # 0
    BY <1>3, <1>12, <2>1 DEF Crash, At, Writing
  <2>3. Vouched(r)'
    BY <2>1 DEF Vouched, At
  <2> QED
    BY <1>1, <1>12, <2>1, <2>2, <2>3, RequestAside DEF Crash, FilesSame
<1>13. CASE UpsertDataset(r)
  <2>1. /\ \A q \in Requests \ {r} : request'[q] = request[q]
        /\ request'[r].step = "registered"
    BY <1>3, <1>13 DEF UpsertDataset, Step, RequestStates
  <2>2. ~At(r, Writing)' /\ ~At(r, {"opened"})
    BY <1>13, <2>1 DEF UpsertDataset, At, Writing
  <2>3. Vouched(r)'
    BY <2>1 DEF Vouched, At
  <2>4. Fresh' /\ Distinct' /\ Owned' /\ Pure' /\ Whole' /\ (~shared => Unshared)'
    BY <1>13, <2>1, <2>2, FilesAside DEF UpsertDataset
  <2>5. ASSUME NEW q \in Requests PROVE Vouched(q)'
    <3>1. CASE q = r
      BY <2>3, <3>1
    <3>2. CASE q # r
      <4>1. UNCHANGED <<shared, stale>> /\ (Present(q)' => Present(q) /\ Found(q)' = Found(q))
        BY <1>13 DEF UpsertDataset, FilesSame, Present, Found
      <4> QED
        BY <2>1, <3>2, <4>1, VouchedKept
    <3> QED
      BY <3>1, <3>2
  <2>6. RowIsVerified'
    <3>1. At(r, {"counted"}) /\ shared' = shared
      BY <1>13 DEF UpsertDataset
    <3>2. row' = [version |-> Version[r], vouched |-> Kind[r] # "legacy",
                  counted |-> request[r].counted, stale |-> r \in stale]
      BY <1>13 DEF UpsertDataset
    <3> QED
      BY <1>4, <3>1, <3>2 DEF RowIsVerified, Vouched, Good
  <2> QED
    BY <1>1, <2>4, <2>5, <2>6 DEF IntakeInv
<1> QED
  BY <1>1, <1>5, <1>6, <1>7, <1>8, <1>9, <1>10, <1>11, <1>12, <1>13, OpenKeepsInv, WriteKeepsInv,
     ReplaceKeepsInv

\* Every reachable state satisfies the invariant.
THEOREM IntakeSafety == IntakeSpec => []IntakeInv
<1>1. IntakeInv /\ [IntakeNext]_intakeVars => IntakeInv'
  BY IntakeStep
<1> QED
  BY <1>1, IntakeInitInv, PTL DEF IntakeSpec

\* A row that names a reference was counted on the manifest the reference names, unless an
\* upload or another version's fetch changed the file after its digest was checked; two
\* fetches that share a temporary file can make it a part of that manifest, no more.
THEOREM RowsAreVerified == IntakeSpec => []RowIsVerified
<1>1. IntakeInv => RowIsVerified
  BY DEF IntakeInv
<1> QED
  BY <1>1, IntakeSafety, PTL

\* A version's file no upload opened is whole, unless fetches that shared a temporary file
\* are still writing, or one of them died.
THEOREM DownloadsDoSettle == IntakeSpec => []DownloadsSettle
<1>1. IntakeInv => DownloadsSettle
  BY DEF IntakeInv, Whole, Mending, Unshared, Untouched, DownloadsSettle, At, Writing
<1> QED
  BY <1>1, IntakeSafety, PTL

=============================================================================
