------------------------- MODULE StoreMigrateProofs -------------------------
(***************************************************************************)
(* What a migration may leave in place, for every manifest, every set of   *)
(* commands, however often the tool fails or is killed and is run again.   *)
(***************************************************************************)
EXTENDS StoreMigrate, WellFoundedInduction, TLAPS

\* The idempotency rows write_destinations inserts into a target.
Carried(t) == {a \in collect_idempotency : target_of(a) = t}

\* Row r is a's, or wins over it: compare_state(a, r) is not Greater.
NoWorse(r, a) ==
  /\ r.cmd.key = a.cmd.key
  /\ r.cmd.version >= a.cmd.version
  /\ r.cmd.version = a.cmd.version =>
       r.cmd.time >= a.cmd.time /\ (r.cmd.time = a.cmd.time => r.source <= a.source)

Unique(rows) == \A q, r \in rows : q.cmd.key = r.cmd.key => q = r

\* The rows of a target are the winners, and theirs only.
Latest(t, rows) ==
  /\ \A r \in rows : r \in Applied /\ target_of(r.cmd) = t
  /\ \A a \in Applied : target_of(a.cmd) = t => \E r \in rows : NoWorse(r, a)
  /\ Unique(rows)

Complete(t, file) == file.idempotency = Carried(t) /\ Latest(t, file.rows)

\* All that collect_states has to merge.
Selected == UNION {{<<i, r>> : r \in Rows(manifest.sources[i])} : i \in Positions}

\* The loop invariant of collect_states: a row that has been read is outdone by
\* what is known of its key, which is one row of a source.
Merging ==
  /\ states \subseteq Applied /\ Unique(states) /\ unread \subseteq Selected
  /\ \A u \in Selected : u \in unread \/ \E r \in states : NoWorse(r, u[2])

\* In a source the versions of a key differ, and one is the highest.
Versioned ==
  \A s \in Source : \A a \in applied[s] :
    /\ \A b \in applied[s] : b.key = a.key /\ b.version = a.version => b = a
    /\ Current(s, a.key) # {}

Shapes == DOMAIN applied = Source /\ DOMAIN temp = Target /\ DOMAIN dest = Target

\* The inductive invariant: a run that has got past its checks, and a destination in
\* place, mean that the sources agree; what the run has merged are winners;
\* temporaries being renamed, and destinations in place, are complete.
MigrateInv ==
  /\ TypeOK /\ Shapes /\ Versioned
  /\ pc \in {"open", "fill", "rename"} => ~ diverges
  /\ Placed # {} => ~ diverges
  /\ pc \in {"collect", "open", "fill"} => Merging
  /\ pc \in {"open", "fill"} => unread = {}
  /\ pc = "fill" => \A t \in Targets : temp[t] = Empty
  /\ pc = "rename" => \A t \in Targets :
                        t >= next => temp[t].made /\ Complete(t, temp[t])
  /\ \A t \in Placed : Complete(t, dest[t])

-----------------------------------------------------------------------------
\* Every non-empty set of positions has a first one.
LEMMA FirstPosition ==
  ASSUME NEW T, T \subseteq Nat, T # {}
  PROVE  \E x \in T : \A y \in T : ~ (y < x)
  <1> DEFINE R == {ss \in Nat \X Nat : ss[1] < ss[2]}
  <1>1. IsWellFoundedOn(R, Nat)
    BY NatLessThanWellFounded, Zenon DEF OpToRel
  <1>2. PICK x \in T : \A y \in T : ~ (<<y, x>> \in R)
    BY <1>1, WFMin, Zenon
  <1>3. \A y \in T : ~ (y < x)
    BY <1>2
  <1> QED
    BY <1>3

\* The manifest's sources and targets.
LEMMA ManifestFacts ==
  ASSUME manifest \in Manifest
  PROVE  /\ \A i \in Positions : i \in Nat /\ manifest.sources[i] \in Source
         /\ ToSet(manifest.sources) \subseteq Source
         /\ manifest.targets \in Nat \ {0} /\ Targets \subseteq Target /\ 1 \in Targets
  <1>1. manifest.targets \in Nat \ {0} /\ manifest.sources \in Seq(Nat)
    BY MigrateConstants
  <1>2. ToSet(manifest.sources) \subseteq Source
    BY DEF Source
  <1>3. \A i \in Positions : i \in Nat /\ manifest.sources[i] \in Source
    BY <1>1, <1>2 DEF Positions, ToSet
  <1>4. Targets \subseteq Target /\ 1 \in Targets
    BY <1>1 DEF Targets, Target
  <1> QED
    BY <1>1, <1>2, <1>3, <1>4

\* What the tool collects comes from the sources.
LEMMA CollectedFacts ==
  ASSUME manifest \in Manifest, \A s \in Source : applied[s] \subseteq Command
  PROVE  /\ \A i \in Positions : At(i) \subseteq Command
         /\ collect_idempotency \subseteq Command
         /\ collect_outbox \subseteq Source \X Command
  <1>1. \A i \in Positions : At(i) \subseteq Command
    BY ManifestFacts DEF At
  <1>2. collect_idempotency \subseteq Command
    BY <1>1 DEF collect_idempotency
  <1>3. collect_outbox \subseteq Source \X Command
    BY ManifestFacts DEF collect_outbox
  <1> QED
    BY <1>1, <1>2, <1>3

\* A row has a version, a time and a source that can be compared.
LEMMA RowFacts ==
  ASSUME NEW r \in Row
  PROVE  /\ r.cmd \in Command /\ r.source \in Source
         /\ r.cmd.version \in Nat /\ r.cmd.time \in Int /\ r.source \in Nat
  <1>1. Source \subseteq Nat
    <2> SUFFICES ASSUME NEW m \in Manifest PROVE ToSet(m.sources) \subseteq Nat
      BY DEF Source
    <2> QED
      BY MigrateConstants DEF ToSet
  <1> QED
    BY <1>1, MigrateConstants DEF Row

\* A winner's winner is a winner.
LEMMA NoWorseTransitive ==
  ASSUME NEW p \in Row, NEW q \in Row, NEW r \in Row, NoWorse(p, q), NoWorse(q, r)
  PROVE  NoWorse(p, r)
  BY RowFacts DEF NoWorse

\* compare_state decides between any two rows of a key.
LEMMA CompareTotal ==
  ASSUME NEW q \in Row, NEW r \in Row, q.cmd.key = r.cmd.key
  PROVE  IF compare_state(q, r) THEN NoWorse(q, r) ELSE NoWorse(r, q)
  BY RowFacts DEF NoWorse, compare_state

\* merge_state: one row of each key stays, the candidate or one no worse, and no key
\* falls back.
LEMMA MergeFacts ==
  ASSUME NEW known, known \subseteq Row, Unique(known), NEW c \in Row
  PROVE  /\ merge_state(known, c) \subseteq known \cup {c}
         /\ Unique(merge_state(known, c))
         /\ \E r \in merge_state(known, c) : NoWorse(r, c)
         /\ \A a \in Row : (\E r \in known : NoWorse(r, a))
                             => \E r \in merge_state(known, c) : NoWorse(r, a)
  <1> DEFINE current == {r \in known : r.cmd.key = c.cmd.key}
             m == merge_state(known, c)
  <1>0. NoWorse(c, c)
    BY RowFacts DEF NoWorse
  <1>1. CASE \A r \in current : compare_state(c, r)
    <2>1. m = (known \ current) \cup {c}
      BY <1>1 DEF merge_state
    <2>2. Unique(m)
      BY <2>1 DEF Unique
    <2>3. ASSUME NEW a \in Row, NEW r \in known, NoWorse(r, a)
          PROVE  \E q \in m : NoWorse(q, a)
      <3>1. CASE r \in current
        <4>1. NoWorse(c, r)
          BY <1>1, <3>1, CompareTotal
        <4>2. NoWorse(c, a)
          BY <2>3, <4>1, NoWorseTransitive
        <4> QED
          BY <2>1, <4>2
      <3>2. CASE r \notin current
        BY <2>1, <2>3, <3>2
      <3> QED
        BY <3>1, <3>2
    <2> QED
      BY <1>0, <2>1, <2>2, <2>3
  <1>2. CASE \E r \in current : ~ compare_state(c, r)
    <2>1. m = known
      BY <1>2 DEF merge_state
    <2>2. \E r \in known : NoWorse(r, c)
      BY <1>2, CompareTotal
    <2> QED
      BY <2>1, <2>2
  <1> QED
    BY <1>1, <1>2

\* What has been applied is a row of a source, and what is selected has been applied.
LEMMA SelectedFacts ==
  ASSUME manifest \in Manifest, \A s \in Source : applied[s] \subseteq Command
  PROVE  /\ Applied \subseteq Row
         /\ \A u \in Selected : u[1] \in Positions /\ u[2] \in Applied
         /\ Selected \subseteq Positions \X Row
  <1>1. ToSet(manifest.sources) \subseteq Source
    BY ManifestFacts
  <1>2. Applied \subseteq Row
    BY <1>1 DEF Applied, Row
  <1>3. ASSUME NEW i \in Positions, NEW r \in Rows(manifest.sources[i])
        PROVE  r \in Applied
    <2>1. manifest.sources[i] \in ToSet(manifest.sources)
      BY DEF Positions, ToSet
    <2>2. PICK c \in applied[manifest.sources[i]] : r = [cmd |-> c, source |-> manifest.sources[i]]
      BY DEF Rows, Current
    <2> QED
      BY <2>1, <2>2 DEF Applied
  <1>4. \A u \in Selected : u[1] \in Positions /\ u[2] \in Applied /\ u = <<u[1], u[2]>>
    BY <1>3 DEF Selected
  <1> QED
    BY <1>2, <1>4

\* Once all is merged, a target's share are its winners.
LEMMA MergedAll ==
  ASSUME TypeOK, Versioned, Merging, unread = {}, NEW t
  PROVE  Latest(t, {r \in states : target_of(r.cmd) = t})
  <1> DEFINE rows == {r \in states : target_of(r.cmd) = t}
  <1>1. Applied \subseteq Row /\ states \subseteq Applied /\ Unique(states)
    BY SelectedFacts DEF TypeOK, Merging
  <1>2. Unique(rows)
    BY <1>1 DEF Unique
  <1>3. ASSUME NEW a \in Applied, target_of(a.cmd) = t
        PROVE  \E r \in rows : NoWorse(r, a)
    <2>1. PICK i \in Positions : a.source = manifest.sources[i] /\ a.cmd \in applied[a.source]
      BY DEF Applied, Positions, ToSet
    <2>2. a.source \in Source /\ a \in Row
      BY <1>1 DEF Row
    <2>3. PICK c \in Current(a.source, a.cmd.key) : TRUE
      BY <2>1, <2>2 DEF Versioned
    <2>4. c \in applied[a.source] /\ c.key = a.cmd.key /\ a.cmd.version <= c.version
      BY <2>1, <2>3 DEF Current
    <2> DEFINE w == [cmd |-> c, source |-> a.source]
    <2>5. <<i, w>> \in Selected
      <3>1. w \in Rows(a.source)
        BY <2>1, <2>3 DEF Rows
      <3> QED
        BY <2>1, <3>1 DEF Selected
    <2>6. w \in Row /\ w.cmd = c /\ w.source = a.source
      BY <2>2, <2>4 DEF Row, TypeOK
    <2>7. PICK r \in states : NoWorse(r, w)
      BY <2>5 DEF Merging
    <2>8. NoWorse(w, a)
      <3>1. c.version = a.cmd.version => c = a.cmd
        BY <2>1, <2>2, <2>4 DEF Versioned
      <3> HIDE DEF w
      <3> QED
        BY <2>2, <2>4, <2>6, <3>1, RowFacts DEF NoWorse
    <2>9. NoWorse(r, a)
      BY <1>1, <2>2, <2>6, <2>7, <2>8, NoWorseTransitive
    <2>10. target_of(r.cmd) = t
      BY <1>3, <2>9 DEF NoWorse, target_of
    <2> QED
      BY <2>9, <2>10
  <1> QED
    BY <1>1, <1>2, <1>3 DEF Latest

\* A command that is applied becomes the highest version of its key.
LEMMA VersionedApply ==
  ASSUME TypeOK, Shapes, Versioned, NEW s \in Source, NEW c \in Command, Apply(s, c)
  PROVE  Versioned'
  <1>1. /\ applied' = [applied EXCEPT ![s] = applied[s] \cup {c}]
        /\ \A a \in applied[s] : a.key = c.key => a.version < c.version
    BY DEF Apply
  <1>2. /\ applied'[s] = applied[s] \cup {c}
        /\ \A r \in Source \ {s} : applied'[r] = applied[r]
    BY <1>1 DEF Shapes
  <1>3. c.version \in Nat /\ \A r \in Source : \A a \in applied[r] : a.version \in Nat
    BY MigrateConstants DEF TypeOK
  <1>4. \A a \in applied'[s] : \A b \in applied'[s] :
           b.key = a.key /\ b.version = a.version => b = a
    BY <1>1, <1>2, <1>3 DEF Versioned
  <1>5. ASSUME NEW a \in applied'[s] PROVE Current(s, a.key)' # {}
    <2>1. CASE a.key = c.key
      <3>1. c \in Current(s, a.key)'
        BY <1>1, <1>2, <1>3, <2>1 DEF Current
      <3> QED
        BY <3>1
    <2>2. CASE a.key # c.key
      <3>1. a \in applied[s]
        BY <1>2, <2>2
      <3>2. PICK d \in Current(s, a.key) : TRUE
        BY <3>1 DEF Versioned
      <3>3. d \in Current(s, a.key)'
        BY <1>2, <2>2, <3>2 DEF Current
      <3> QED
        BY <3>3
    <2> QED
      BY <2>1, <2>2
  <1>6. \A r \in Source \ {s} : \A k : Current(r, k)' = Current(r, k)
    BY <1>2 DEF Current
  <1>7. ASSUME NEW r \in Source \ {s}, NEW a \in applied'[r]
        PROVE  /\ \A b \in applied'[r] : b.key = a.key /\ b.version = a.version => b = a
               /\ Current(r, a.key)' # {}
    BY <1>2, <1>6, <1>7 DEF Versioned
  <1> QED
    BY <1>4, <1>5, <1>7 DEF Versioned

\* What is to be carried over, what wins and whether the sources agree depend on
\* manifest and sources only.
LEMMA SourcesFrame ==
  ASSUME UNCHANGED <<manifest, applied>>
  PROVE  /\ Targets' = Targets /\ diverges' = diverges /\ Versioned' = Versioned
         /\ Positions' = Positions /\ Selected' = Selected /\ Applied' = Applied
         /\ \A t, f : Complete(t, f)' = Complete(t, f)
  <1>1. Targets' = Targets /\ Positions' = Positions /\ Applied' = Applied
    BY DEF Targets, Positions, Applied
  <1>2. diverges' = diverges
    BY DEF diverges, Positions, At
  <1>3. \A c : target_of(c)' = target_of(c)
    BY DEF target_of
  <1>4. \A t : Carried(t)' = Carried(t)
    BY DEF Carried, collect_idempotency, target_of, Positions, At
  <1>5. \A s, k : Current(s, k)' = Current(s, k)
    BY DEF Current
  <1>6. Versioned' = Versioned
    BY <1>5 DEF Versioned
  <1>7. \A s : Rows(s)' = Rows(s)
    BY <1>5 DEF Rows
  <1>8. Selected' = Selected
    BY <1>1, <1>7 DEF Selected
  <1>9. \A t, f : Complete(t, f)' = Complete(t, f)
    BY <1>1, <1>3, <1>4 DEF Complete, Latest
  <1> QED
    BY <1>1, <1>2, <1>6, <1>8, <1>9

\* An empty temporary and a fresh file are well-formed.
LEMMA FileFacts ==
  /\ NoFile.made = FALSE /\ NoFile.idempotency = {} /\ NoFile.outbox = {} /\ NoFile.rows = {}
  /\ DOMAIN Empty = DOMAIN NoFile /\ Empty.made = TRUE
  /\ Empty.idempotency = {} /\ Empty.outbox = {} /\ Empty.rows = {}
  BY DEF NoFile, Empty

\* Sources that disagree are what diverges says.
LEMMA DisagreementDiverges ==
  ASSUME TypeOK, NEW a \in Applied, NEW b \in Applied,
         a.cmd.id = b.cmd.id, ~ same_idempotency(a.cmd, b.cmd)
  PROVE  diverges
  <1>1. ASSUME NEW c \in Applied PROVE \E i \in Positions : c.cmd \in At(i)
    BY <1>1 DEF Applied, Positions, At, ToSet
  <1> QED
    BY <1>1 DEF diverges

\* When the sources agree, the first row under an idempotency key stands for all.
LEMMA CarriedStandsForAll ==
  ASSUME TypeOK, ~ diverges, NEW a \in Applied
  PROVE  \E i \in Carried(target_of(a.cmd)) : i.id = a.cmd.id /\ same_idempotency(i, a.cmd)
  <1> DEFINE T == {i \in Positions : \E b \in At(i) : b.id = a.cmd.id}
  <1>1. PICK p \in Positions : a.cmd \in At(p)
    BY DEF Applied, Positions, At, ToSet
  <1>2. T \subseteq Nat /\ T # {}
    BY <1>1, ManifestFacts DEF TypeOK
  <1>3. PICK f \in T : \A j \in T : ~ (j < f)
    BY <1>2, FirstPosition
  <1>4. PICK b \in At(f) : b.id = a.cmd.id
    BY <1>3
  <1>5. \A j \in 1..(f - 1) : \A c \in At(j) : b.id # c.id
    <2> SUFFICES ASSUME NEW j \in 1..(f - 1), NEW c \in At(j), b.id = c.id PROVE FALSE
      OBVIOUS
    <2>1. f \in Nat /\ j < f
      BY <1>2, <1>3
    <2>2. j \in Positions
      <3>1. manifest.sources \in Seq(Nat) /\ f \in DOMAIN manifest.sources
        BY <1>3, MigrateConstants DEF TypeOK, Positions
      <3> QED
        BY <2>1, <3>1 DEF Positions
    <2>3. j \in T
      BY <1>4, <2>2
    <2> QED
      BY <1>3, <2>1, <2>3
  <1>6. b \in collect_idempotency
    BY <1>3, <1>4, <1>5 DEF collect_idempotency
  <1>7. same_idempotency(b, a.cmd)
    BY <1>1, <1>3, <1>4 DEF diverges
  <1>8. target_of(b) = target_of(a.cmd)
    BY <1>7 DEF target_of, same_idempotency
  <1> QED
    BY <1>4, <1>6, <1>7, <1>8 DEF Carried

-----------------------------------------------------------------------------
(* The steps *)

\* Before the first run there is nothing but empty sources.
LEMMA MigrateInit == Init => MigrateInv
  <1> SUFFICES ASSUME Init PROVE MigrateInv
    OBVIOUS
  <1>1. manifest \in Manifest /\ MaxFaults \in Nat
    BY MigrateConstants DEF Init
  <1>2. TypeOK
    <2>1. \A t \in Target : temp[t] = NoFile /\ dest[t] = NoFile
      BY DEF Init
    <2>2. next \in Targets /\ faults \in 0..MaxFaults
      BY <1>1, ManifestFacts DEF Init
    <2>3. (\A s \in Source : applied[s] \subseteq Command) /\ pending \subseteq Source
      BY DEF Init
    <2> QED
      BY <1>1, <2>1, <2>2, <2>3, FileFacts DEF Init, TypeOK
  <1>3. Placed = {}
    BY <1>1, ManifestFacts, FileFacts DEF Init, Placed
  <1> QED
    BY <1>2, <1>3 DEF Init, MigrateInv, Shapes, Versioned

\* A file's tables hold rows of the sources.
FileOK(f) ==
  /\ DOMAIN f = DOMAIN NoFile /\ f.made \in BOOLEAN
  /\ f.rows \subseteq Row /\ f.idempotency \subseteq Command
  /\ f.outbox \subseteq Source \X Command

\* The part of the type invariant about files.
LEMMA FilesOK ==
  /\ FileOK(NoFile) /\ FileOK(Empty)
  /\ TypeOK => \A t \in Target : FileOK(temp[t]) /\ FileOK(dest[t])
  <1>1. FileOK(NoFile) /\ FileOK(Empty)
    BY FileFacts, Zenon DEF FileOK
  <1>2. TypeOK => \A t \in Target : FileOK(temp[t]) /\ FileOK(dest[t])
    BY Zenon DEF TypeOK, FileOK
  <1> QED
    BY <1>1, <1>2

\* A step that moves, makes or removes files keeps the types.
LEMMA TypeFrame ==
  ASSUME TypeOK, UNCHANGED manifest, UNCHANGED applied,
         pending' \subseteq Source,
         pc' \in {"idle", "collect", "open", "fill", "rename"},
         unread' \subseteq Positions \X Row, states' \subseteq Row,
         \A t \in Target : temp'[t] \in {temp[t], dest[t], NoFile, Empty} \/ FileOK(temp'[t]),
         \A t \in Target : dest'[t] \in {temp[t], dest[t], NoFile, Empty} \/ FileOK(dest'[t]),
         next' \in Targets, faults' \in 0..MaxFaults
  PROVE  TypeOK'
  <1>1. Positions' = Positions /\ Targets' = Targets
    BY DEF Positions, Targets
  <1>2. \A t \in Target : FileOK(temp'[t]) /\ FileOK(dest'[t])
    BY FilesOK
  <1>3. (\A t \in Target : \A f \in {temp[t], dest[t]} :
           /\ DOMAIN f = DOMAIN NoFile /\ f.made \in BOOLEAN
           /\ f.rows \subseteq Row /\ f.idempotency \subseteq Command
           /\ f.outbox \subseteq Source \X Command)'
    BY <1>2, Zenon DEF FileOK
  <1> QED
    BY <1>1, <1>3 DEF TypeOK

\* Steps of the tool, its failures and the operator, which leave manifest and
\* sources alone.
LEMMA ToolStep ==
  ASSUME MigrateInv, UNCHANGED <<manifest, applied>>, TypeOK', Shapes',
         pc' \in {"open", "fill", "rename"} => pc \in {"open", "fill", "rename"} \/ ~ diverges,
         pc' \in {"collect", "open", "fill"} => Merging',
         pc' \in {"open", "fill"} => unread' = {},
         pc' = "fill" => \A t \in Targets : temp'[t] = Empty,
         pc' = "rename" => \A t \in Targets : t >= next' =>
                             temp'[t].made /\ Complete(t, temp'[t]),
         \A t \in Targets : dest'[t].made =>
           \/ dest'[t] = dest[t]
           \/ pc \in {"open", "fill", "rename"} /\ Complete(t, dest'[t])
  PROVE  MigrateInv'
  <1>1. /\ Targets' = Targets /\ diverges' = diverges /\ Versioned' = Versioned
        /\ \A t, f : Complete(t, f)' = Complete(t, f)
    BY SourcesFrame
  <1>2. (pc \in {"open", "fill", "rename"} => ~ diverges)'
    BY <1>1 DEF MigrateInv
  <1>3. (Placed # {} => ~ diverges)'
    BY <1>1 DEF MigrateInv, Placed
  <1>4. \A t \in Placed' : Complete(t, dest'[t])
    BY DEF MigrateInv, Placed, Targets
  <1>5. (\A t \in Placed : Complete(t, dest[t]))'
    BY <1>1, <1>4
  <1>6. (pc = "fill" => \A t \in Targets : temp[t] = Empty)'
    BY <1>1
  <1>7. (pc = "rename" => \A t \in Targets :
                            t >= next => temp[t].made /\ Complete(t, temp[t]))'
    BY <1>1
  <1>8. Versioned'
    BY <1>1 DEF MigrateInv
  <1> QED
    BY <1>2, <1>3, <1>5, <1>6, <1>7, <1>8 DEF MigrateInv

\* Steps that leave manifest, sources and memory alone keep what has been merged.
LEMMA MergingFrame ==
  ASSUME UNCHANGED <<manifest, applied, memory>>, Merging
  PROVE  Merging'
  BY SourcesFrame DEF Merging, memory

\* A temporary that has been filled holds its share, and nothing else.
LEMMA FilledFacts ==
  ASSUME MigrateInv, pc = "fill", NEW t \in Targets
  PROVE  LET f == Inserted(temp[t], Share(t))
         IN  /\ DOMAIN f = DOMAIN NoFile /\ f.made = TRUE
             /\ Complete(t, f)
             /\ f.rows \subseteq Row /\ f.idempotency \subseteq Command
             /\ f.outbox \subseteq Source \X Command
  <1> DEFINE f == Inserted(temp[t], Share(t))
  <1>0. temp[t] = Empty /\ TypeOK /\ Versioned /\ Merging /\ unread = {}
    BY DEF MigrateInv
  <1>1. f.made = TRUE /\ DOMAIN f = DOMAIN NoFile
    BY DEF Inserted, NoFile
  <1>2. f.idempotency = Carried(t)
    BY <1>0, FileFacts DEF Inserted, Share, Carried
  <1>3. f.outbox = {e \in collect_outbox : target_of(e[2]) = t}
    BY <1>0, FileFacts DEF Inserted, Share
  <1>4. f.rows = {r \in states : target_of(r.cmd) = t}
    BY <1>0, FileFacts DEF Inserted, Share
  <1>5. /\ collect_idempotency \subseteq Command
        /\ collect_outbox \subseteq Source \X Command
    BY <1>0, CollectedFacts DEF TypeOK
  <1>6. Latest(t, f.rows)
    BY <1>0, <1>4, MergedAll
  <1>7. Complete(t, f)
    BY <1>2, <1>6 DEF Complete
  <1>8. f.rows \subseteq Row /\ f.idempotency \subseteq Command /\ f.outbox \subseteq Source \X Command
    BY <1>0, <1>2, <1>3, <1>4, <1>5 DEF Carried, TypeOK
  <1> QED
    BY <1>1, <1>7, <1>8

\* Every step of writers, operator and tool keeps the invariant.
LEMMA MigrateStep == MigrateInv /\ [Next]_vars => MigrateInv'
  <1> SUFFICES ASSUME MigrateInv, [Next]_vars PROVE MigrateInv'
    OBVIOUS
  <1>0. /\ TypeOK /\ Shapes /\ Versioned /\ manifest \in Manifest /\ MaxFaults \in Nat
        /\ manifest.targets \in Nat \ {0} /\ Targets \subseteq Target /\ 1 \in Targets
    BY ManifestFacts, MigrateConstants DEF MigrateInv, TypeOK
  <1>1. ASSUME NEW s \in Source, NEW c \in Command, Apply(s, c) PROVE MigrateInv'
    <2>1. /\ UNCHANGED <<manifest, pc, unread, states, temp, dest, next, faults>> /\ pc = "idle"
          /\ applied' = [applied EXCEPT ![s] = applied[s] \cup {c}]
          /\ pending' = pending \cup {s} /\ \A t \in Target : ~ dest[t].made
      BY <1>1 DEF Apply, memory
    <2>2. Placed' = {} /\ Targets' = Targets /\ Positions' = Positions
      BY <1>0, <2>1 DEF Placed, Targets, Positions
    <2>3. TypeOK'
      BY <1>0, <2>1, <2>2 DEF TypeOK, Shapes
    <2>4. Versioned'
      BY <1>0, <1>1, VersionedApply
    <2> QED
      BY <1>0, <2>1, <2>2, <2>3, <2>4 DEF MigrateInv, Shapes
  <1>2. ASSUME NEW s \in Source, Drain(s) PROVE MigrateInv'
    <2>1. UNCHANGED <<manifest, applied, pc, unread, states, temp, dest, next, faults>>
          /\ pc = "idle" /\ pending' = pending \ {s}
      BY <1>2 DEF Drain, memory
    <2>2. TypeOK' /\ Shapes'
      BY <1>0, <2>1 DEF TypeOK, Shapes, Targets, Positions
    <2> QED
      BY <2>1, <2>2, ToolStep
  <1>4. CASE Start
    <2>1. /\ UNCHANGED <<manifest, applied, pending, faults, temp, dest, next>>
          /\ pc' = "collect" /\ states' = {} /\ unread' = Selected
      BY <1>4 DEF Start, Unchanged, Selected
    <2>2. Selected \subseteq Positions \X Row
      BY <1>0, SelectedFacts DEF TypeOK
    <2>3. TypeOK' /\ Shapes'
      BY <1>0, <2>1, <2>2, TypeFrame DEF Shapes, TypeOK
    <2>4. Merging'
      BY <2>1, SourcesFrame DEF Merging, Unique
    <2> QED
      BY <2>1, <2>3, <2>4, ToolStep
  <1>11. CASE collect_states
    <2>1. PICK u \in unread : states' = merge_state(states, u[2]) /\ unread' = unread \ {u}
      BY <1>11 DEF collect_states
    <2>2. /\ UNCHANGED <<manifest, applied, pending, faults, temp, dest, next, pc>>
          /\ pc = "collect"
      BY <1>11 DEF collect_states, Unchanged
    <2>3. Merging /\ states \subseteq Row /\ Applied \subseteq Row /\ unread \subseteq Selected
          /\ \A v \in Selected : v[2] \in Row /\ v[2] \in Applied
      BY <1>0, <2>2, SelectedFacts DEF MigrateInv, TypeOK, Merging
    <2>4. /\ states' \subseteq states \cup {u[2]} /\ Unique(states')
          /\ \E r \in states' : NoWorse(r, u[2])
          /\ \A a \in Row : (\E r \in states : NoWorse(r, a)) => \E r \in states' : NoWorse(r, a)
      BY <2>1, <2>3, MergeFacts DEF Merging
    <2>5. Merging'
      BY <2>1, <2>2, <2>3, <2>4, SourcesFrame DEF Merging
    <2>6. TypeOK' /\ Shapes'
      BY <1>0, <2>1, <2>2, <2>3, <2>4, TypeFrame DEF TypeOK, Shapes
    <2> QED
      BY <2>2, <2>5, <2>6, ToolStep
  <1>12. CASE Refuse
    <2>1. /\ UNCHANGED <<manifest, applied, pending, faults, temp, dest, next>>
          /\ pc' = "idle" /\ states' = {} /\ unread' = {}
      BY <1>12 DEF Refuse, Return, Unchanged
    <2>2. TypeOK' /\ Shapes'
      BY <1>0, <2>1, TypeFrame DEF TypeOK, Shapes
    <2> QED
      BY <2>1, <2>2, ToolStep
  <1>13. CASE Accept
    <2>1. /\ UNCHANGED <<manifest, applied, pending, faults, unread, states, dest, next>>
          /\ pc = "collect" /\ pc' = "open" /\ unread = {}
          /\ ~ diverges /\ temp' \in {temp, [t \in Target |-> NoFile]}
      BY <1>13 DEF Accept, Unchanged, memory
    <2>2. \A t \in Target : temp'[t] \in {temp[t], NoFile} /\ dest'[t] = dest[t]
      BY <2>1
    <2>3. TypeOK' /\ Shapes'
      BY <1>0, <2>1, <2>2, TypeFrame DEF TypeOK, Shapes
    <2>4. Merging'
      BY <2>1, MergingFrame DEF MigrateInv, memory
    <2> QED
      BY <2>1, <2>3, <2>4, ToolStep
  <1>5. CASE OpenTemporaries
    <2>1. /\ UNCHANGED <<manifest, applied, pending, faults, unread, states, dest, next>>
          /\ pc = "open" /\ pc' = "fill"
          /\ temp' = [t \in Target |-> IF t \in Targets THEN Empty ELSE temp[t]]
      BY <1>5 DEF OpenTemporaries, Unchanged, memory
    <2>2. \A t \in Target : temp'[t] \in {temp[t], Empty} /\ dest'[t] = dest[t]
      BY <2>1
    <2>3. TypeOK' /\ Shapes'
      BY <1>0, <2>1, <2>2, TypeFrame DEF TypeOK, Shapes
    <2>4. \A t \in Targets : temp'[t] = Empty
      BY <1>0, <2>1
    <2>5. Merging' /\ unread' = {}
      BY <2>1, MergingFrame DEF MigrateInv, memory
    <2> QED
      BY <2>1, <2>3, <2>4, <2>5, ToolStep
  <1>6. CASE RemoveLeftovers \/ WriteFails
    <2>1. /\ UNCHANGED <<manifest, applied, pending, dest, next>>
          /\ pc' = "idle" /\ states' = {} /\ unread' = {} /\ temp' = [t \in Target |-> NoFile]
          /\ faults' = faults \/ (faults < MaxFaults /\ faults' = faults + 1)
      BY <1>6 DEF RemoveLeftovers, WriteFails, Unchanged, Return
    <2>2. faults' \in 0..MaxFaults
      BY <1>0, <2>1 DEF TypeOK
    <2>3. \A t \in Target : temp'[t] = NoFile /\ dest'[t] = dest[t]
      BY <2>1
    <2>4. TypeOK' /\ Shapes'
      BY <1>0, <2>1, <2>2, <2>3, TypeFrame DEF TypeOK, Shapes
    <2> QED
      BY <2>1, <2>4, ToolStep
  <1>7. CASE FillTemporaries
    <2>1. /\ UNCHANGED <<manifest, applied, pending, faults, dest, unread>>
          /\ pc = "fill" /\ pc' = "rename" /\ next' = 1 /\ states' = {}
          /\ temp' = [t \in Target |-> IF t \in Targets THEN Inserted(temp[t], Share(t))
                                                        ELSE temp[t]]
      BY <1>7 DEF FillTemporaries, Unchanged
    <2>2. \A t \in Targets : /\ DOMAIN temp'[t] = DOMAIN NoFile /\ temp'[t].made = TRUE
                             /\ Complete(t, temp'[t])
                             /\ temp'[t].rows \subseteq Row
                             /\ temp'[t].idempotency \subseteq Command
                             /\ temp'[t].outbox \subseteq Source \X Command
      BY <1>0, <2>1, FilledFacts
    <2>3. \A t \in Target \ Targets : temp'[t] = temp[t]
      BY <2>1
    <2>4. \A t \in Target : FileOK(temp'[t]) /\ dest'[t] = dest[t]
      BY <1>0, <2>1, <2>2, <2>3, FilesOK DEF FileOK
    <2>5. TypeOK' /\ Shapes'
      BY <1>0, <2>1, <2>4, FilesOK, TypeFrame DEF TypeOK, Shapes
    <2> QED
      BY <2>1, <2>2, <2>5, ToolStep
  <1>8. CASE RenameTemporary
    <2>1. /\ UNCHANGED <<manifest, applied, pending, faults, unread, states>> /\ pc = "rename"
          /\ dest' = [dest EXCEPT ![next] = temp[next]]
          /\ temp' = [temp EXCEPT ![next] = NoFile]
          /\ next' = IF next = manifest.targets THEN 1 ELSE next + 1
          /\ pc' = IF next = manifest.targets THEN "idle" ELSE "rename"
      BY <1>8 DEF RenameTemporary, Unchanged, memory
    <2>2. next \in Targets /\ next \in Target /\ next \in Nat
          /\ next <= manifest.targets
      BY <1>0 DEF TypeOK, Targets
    <2>3. /\ dest'[next] = temp[next] /\ temp'[next] = NoFile
          /\ \A t \in Target \ {next} : dest'[t] = dest[t] /\ temp'[t] = temp[t]
      BY <1>0, <2>1, <2>2 DEF Shapes
    <2>4. next' \in Targets
      BY <1>0, <2>1, <2>2 DEF Targets
    <2>5. TypeOK' /\ Shapes'
      <3>1. \A t \in Target : temp'[t] \in {temp[t], NoFile} /\ dest'[t] \in {temp[t], dest[t]}
        BY <2>3
      <3>2. Shapes'
        BY <1>0, <2>1 DEF Shapes
      <3> QED
        BY <1>0, <2>1, <2>4, <3>1, <3>2, TypeFrame DEF TypeOK
    <2>6. Complete(next, temp[next])
      BY <2>1, <2>2 DEF MigrateInv
    <2>7. \A t \in Targets : t >= next /\ t # next =>
             temp'[t].made /\ Complete(t, temp'[t])
      BY <1>0, <2>1, <2>3 DEF MigrateInv
    <2>8. pc' = "rename" => \A t \in Targets : t >= next' => t >= next /\ t # next
      BY <1>0, <2>1, <2>2 DEF Targets
    <2>9. \A t \in Targets : dest'[t] = dest[t] \/ Complete(t, dest'[t])
      BY <1>0, <2>3, <2>6
    <2> QED
      BY <2>1, <2>5, <2>7, <2>8, <2>9, ToolStep
  <1>9. CASE Kill
    <2>1. /\ UNCHANGED <<manifest, applied, pending, temp, dest>>
          /\ pc' = "idle" /\ unread' = {} /\ states' = {}
          /\ next' = 1 /\ faults < MaxFaults /\ faults' = faults + 1
      BY <1>9 DEF Kill, Return
    <2>2. TypeOK' /\ Shapes'
      BY <1>0, <2>1, TypeFrame DEF TypeOK, Shapes
    <2> QED
      BY <2>1, <2>2, ToolStep
  <1>10. CASE UNCHANGED vars
    <2>1. UNCHANGED <<manifest, applied, pending, pc, unread, states, temp, dest, next, faults>>
      BY <1>10 DEF vars, memory
    <2>2. TypeOK' /\ Shapes'
      BY <1>0, <2>1, TypeFrame DEF TypeOK, Shapes
    <2>3. pc' \in {"collect", "open", "fill"} => Merging'
      BY <2>1, MergingFrame DEF MigrateInv, memory
    <2> QED
      BY <2>1, <2>2, <2>3, ToolStep DEF MigrateInv
  <1> QED
    BY <1>1, <1>2, <1>4, <1>5, <1>6, <1>7, <1>8, <1>9, <1>10,
       <1>11, <1>12, <1>13 DEF Next, Tool

\* The invariant always holds.
LEMMA MigrateInvariant == Spec => []MigrateInv
  BY MigrateInit, MigrateStep, PTL DEF Spec

\* Every file keeps its shape and the rename loop stays within the manifest.
THEOREM MigrateTypeCorrect == Spec => []TypeOK
  <1>1. MigrateInv => TypeOK
    BY DEF MigrateInv
  <1> QED
    BY <1>1, MigrateInvariant, PTL

\* Sources that disagree about an idempotency key never become a destination,
\* whatever kills, retries and writes came between the check and the renames.
THEOREM DivergentSourcesStayApart == Spec => []DivergentNeverMerged
  <1>1. MigrateInv => DivergentNeverMerged
    BY DisagreementDiverges DEF MigrateInv, DivergentNeverMerged
  <1> QED
    BY <1>1, MigrateInvariant, PTL

\* A command applied in any source is a duplicate in the destination that owns its
\* key, in whatever order the manifest lists the sources.
THEOREM RetriesAreRecognised == Spec => []RetriesStayDuplicates
  <1>1. MigrateInv => RetriesStayDuplicates
    <2> SUFFICES ASSUME MigrateInv, NEW t \in Placed, NEW a \in Applied, target_of(a.cmd) = t
                 PROVE  \E i \in dest[t].idempotency :
                          i.id = a.cmd.id /\ same_idempotency(i, a.cmd)
      BY DEF RetriesStayDuplicates
    <2>1. ~ diverges /\ dest[t].idempotency = Carried(t) /\ TypeOK
      BY DEF MigrateInv, Complete
    <2> QED
      BY <2>1, CarriedStandsForAll
  <1> QED
    BY <1>1, MigrateInvariant, PTL

\* Whatever the order of the manifest and of the rows in the tables, and however
\* often the run is killed and repeated, a destination in place holds for each of its
\* keys the row or tombstone of highest version, latest time, smallest source.
THEOREM WinnersArePlaced == Spec => []LatestStateWins
  <1>1. MigrateInv => LatestStateWins
    <2> SUFFICES ASSUME MigrateInv, NEW t \in Placed
                 PROVE  /\ \A r \in dest[t].rows : r \in Applied /\ target_of(r.cmd) = t
                        /\ \A a \in Applied : target_of(a.cmd) = t =>
                             \E r \in dest[t].rows :
                               /\ NoWorse(r, a)
                               /\ \A q \in dest[t].rows : q.cmd.key = r.cmd.key => q = r
      BY DEF LatestStateWins, NoWorse
    <2>1. Latest(t, dest[t].rows)
      BY DEF MigrateInv, Complete
    <2> QED
      BY <2>1 DEF Latest, Unique
  <1> QED
    BY <1>1, MigrateInvariant, PTL

\* The row or tombstone of a key in a destination carries the highest version of its
\* idempotency rows, though the two tables are merged by different rules.
THEOREM FloorsArePlaced == Spec => []FloorMatchesRow
  <1>1. MigrateInv => FloorMatchesRow
    <2> SUFFICES ASSUME MigrateInv, NEW t \in Placed
                 PROVE  /\ \A i \in dest[t].idempotency : \E r \in dest[t].rows :
                             r.cmd.key = i.key /\ i.version <= r.cmd.version
                        /\ \A r \in dest[t].rows : \E i \in dest[t].idempotency :
                             i.key = r.cmd.key /\ i.version = r.cmd.version
      BY DEF FloorMatchesRow
    <2>1. /\ ~ diverges /\ TypeOK /\ Applied \subseteq Row
          /\ dest[t].idempotency = Carried(t) /\ Latest(t, dest[t].rows)
      BY SelectedFacts DEF MigrateInv, Complete, TypeOK
    <2>2. ASSUME NEW i \in Carried(t)
          PROVE  \E r \in dest[t].rows : r.cmd.key = i.key /\ i.version <= r.cmd.version
      <3>1. PICK p \in Positions : i \in At(p) /\ target_of(i) = t
        BY DEF Carried, collect_idempotency
      <3> DEFINE a == [cmd |-> i, source |-> manifest.sources[p]]
      <3>2. a \in Applied /\ a.cmd = i
        BY <3>1 DEF Applied, At, Positions, ToSet
      <3>3. PICK r \in dest[t].rows : NoWorse(r, a)
        BY <2>1, <3>1, <3>2 DEF Latest
      <3>4. r \in Row /\ a \in Row
        BY <2>1, <3>2 DEF Latest
      <3> HIDE DEF a
      <3> QED
        BY <3>2, <3>3, <3>4, RowFacts DEF NoWorse
    <2>3. ASSUME NEW r \in dest[t].rows
          PROVE  \E i \in Carried(t) : i.key = r.cmd.key /\ i.version = r.cmd.version
      <3>1. r \in Applied /\ target_of(r.cmd) = t
        BY <2>1 DEF Latest
      <3> QED
        BY <2>1, <3>1, CarriedStandsForAll DEF same_idempotency
    <2> QED
      BY <2>1, <2>2, <2>3
  <1> QED
    BY <1>1, MigrateInvariant, PTL
=============================================================================
