---------------------------- MODULE ModelCatalog ----------------------------
(***************************************************************************)
(* How a model gets from a file to the ai-inference replicas: model-upload *)
(* and the requests of ai-training put documents into the Elasticsearch    *)
(* catalog, and each replica discovers, downloads, verifies and loads one  *)
(* at its start.                                                           *)
(*                                                                         *)
(* A content is what a file or a document holds: an artifact, or Garbage,  *)
(* any bytes that are no artifact, such as a half written file.  SHA-256   *)
(* tells contents apart, so a content is its own digest.                   *)
(***************************************************************************)
EXTENDS Naturals, FiniteSets

CONSTANTS
  Uploaders,     \* runs of model-upload
  Trainings,     \* requests /train and /retrain, each in a thread of Flask
  Replicas,      \* containers of ai-inference, which share the volume /app/models
  Artifacts, Garbage,
  ClassesOf,     \* classes_ of an artifact; none, if it is no forest of the features
  Files,         \* what model-upload may be given: the name of a file, the
                 \* artifact in it and the classes that its metadata labels
  Fits,          \* the forests fit() may return to a training, given what
                 \* somebody put into the files of its dataset
  Base,          \* the model that a training is asked to retrain, or Nothing
  Name,          \* the file names that each training may get by its dataset and second
  Classes,       \* the class IDs of CATEGORY_MAP
  Selector,      \* LOAD_MODEL, the file name or the id of a model
  Pin,           \* MODEL_SHA256, or Nothing
  Nothing,       \* no content, no digest, no document
  SearchSize,    \* how many documents list_models() asks for
  MaxRetries,    \* UPLOAD_MAX_RETRIES
  MaxFaults      \* bound on failed requests and crashes

Publishers == Uploaders \union Trainings
Contents == Artifacts \union {Garbage}
Names == (UNION {Name[t] : t \in Trainings}) \union {f.name : f \in Files}
Records == [id : Contents, name : Names, labels : SUBSET Nat]
Documents == [id : Contents, name : Names, content : Contents, labels : SUBSET Nat, time : Nat]

ASSUME PublisherAssumption ==
  /\ Uploaders \intersect Trainings = {}
  /\ \A f \in Files : f.artifact \in Artifacts /\ f.labels \in SUBSET Nat
  /\ Fits \in [Trainings -> SUBSET Artifacts]
  /\ Base \in [Trainings -> Contents \union {Nothing}]
  /\ ClassesOf \in [Artifacts -> SUBSET Nat]
  /\ Classes \subseteq Nat /\ \E k \in Classes : Classes = 0 .. k
  /\ MaxRetries \in Nat \ {0} /\ MaxFaults \in Nat

ASSUME SearchAssumption == SearchSize \in Nat \ {0}

ASSUME DistinctAssumption ==
  /\ Nothing \notin Contents \union Names \union Documents
  /\ Garbage \notin Artifacts
  /\ Contents \intersect Names = {}   \* a digest does not end in .joblib

\* The digest is known, by the pin or because the model is selected by it.
ASSUME ConfigAssumption ==
  /\ Selector \in Contents \union Names
  /\ Pin \in Contents \union {Nothing}
  /\ Pin # Nothing \/ Selector \in Contents

VARIABLES
  clock,         \* how many documents were built: datetime.now()
  faults,
  catalog,       \* the document under each id
  late,          \* requests without an answer that may still arrive
  step,          \* of a publisher: where it is
  document,      \* and the document it has built
  attempts,      \* attempts of an uploader that have failed
  fitted,        \* the model that a training has fitted
  filename,      \* and the name of its file; two trainings may share it
  trained,       \* models_out_path: the files of the trainings
  disturbed,     \* trainings whose file was written by another meanwhile
  models,        \* models_path: the files on the volume of the replicas
  pc, record,    \* of a replica: where it is, and what it has discovered
  loaded         \* self.model

publishing == <<clock, step, document, attempts, fitted, filename, trained, disturbed>>
starting == <<models, pc, record, loaded>>
vars == <<clock, faults, catalog, late, step, document, attempts, fitted, filename,
          trained, disturbed, models, pc, record, loaded>>

Fault == faults < MaxFaults /\ faults' = faults + 1
To(f, x, y) == f' = [f EXCEPT ![x] = y]

Init ==
  /\ clock = 0 /\ faults = 0
  /\ catalog = [c \in Contents |-> Nothing]
  /\ late = {}
  /\ step = [p \in Publishers |-> "start"]
  /\ document = [p \in Publishers |-> Nothing]
  /\ attempts = [u \in Uploaders |-> 0]
  /\ fitted = [t \in Trainings |-> Nothing]
  /\ filename \in {f \in [Trainings -> Names] : \A t \in Trainings : f[t] \in Name[t]}
  /\ trained = [n \in Names |-> Nothing]
  /\ disturbed = {}
  /\ models = [n \in Names |-> Nothing]
  /\ pc = [r \in Replicas |-> "wait"]
  /\ record = [r \in Replicas |-> Nothing]
  /\ loaded = [r \in Replicas |-> Nothing]
-----------------------------------------------------------------------------
(***************************************************************************)
(* The catalog.  A PUT replaces the document under its id.                 *)
(***************************************************************************)
Store(d) == To(catalog, d.id, d)

\* A PUT that the client gave up on reaches the catalog after all.
ArriveLate ==
  /\ \E d \in late : Store(d) /\ late' = late \ {d}
  /\ UNCHANGED <<faults, publishing, starting>>

Build(p, name, labels, id, content) ==
  /\ clock' = clock + 1
  /\ To(document, p, [id |-> id, name |-> name, content |-> content,
                      labels |-> labels, time |-> clock + 1])
  /\ To(step, p, "put")

\* The publisher returns or raises, and its document is gone.
End(p, how) == To(step, p, how) /\ To(document, p, Nothing)

\* The PUT is answered with 200 or 201.
PutAnswered(p) ==
  /\ step[p] = "put"
  /\ Store(document[p])
  /\ End(p, "done")
  /\ UNCHANGED <<clock, faults, late, attempts, fitted, filename, trained, disturbed, starting>>

\* There is no answer in 30 seconds, or one of 5xx.
Unanswered(p) ==
  /\ step[p] = "put"
  /\ Fault
  /\ late' \in {late, late \union {document[p]}}
-----------------------------------------------------------------------------
(***************************************************************************)
(* model-upload: the document is built once and put again and again.       *)
(***************************************************************************)
\* A mistake: the declared checksum is believed, though it may be missing.
TrustDeclared(u, file, declared, model) ==
  /\ step[u] = "start"
  /\ Build(u, file.name, file.labels, declared, file.artifact)
  /\ UNCHANGED <<faults, catalog, late, attempts, fitted, filename, trained, disturbed, starting>>

\* build_document(), given the checksum and the file name that the metadata
\* file declares, if it does.
BuildDocument(u, file, declared, model) ==
  /\ step[u] = "start"
  /\ IF declared \in {Nothing, file.artifact} /\ model \in {Nothing, file.name}
       THEN Build(u, file.name, file.labels, file.artifact, file.artifact)
       ELSE End(u, "failed") /\ UNCHANGED clock
  /\ UNCHANGED <<faults, catalog, late, attempts, fitted, filename, trained, disturbed, starting>>

GivesUp(u) == attempts[u] + 1 = MaxRetries

Retry(u) ==
  /\ Unanswered(u)
  /\ To(attempts, u, attempts[u] + 1)
  /\ IF GivesUp(u) THEN End(u, "failed") ELSE UNCHANGED <<step, document>>
  /\ UNCHANGED <<clock, catalog, fitted, filename, trained, disturbed, starting>>

\* A 4xx is raised.
Refused(u) ==
  /\ step[u] = "put"
  /\ Fault
  /\ End(u, "failed")
  /\ UNCHANGED <<clock, catalog, late, attempts, fitted, filename, trained, disturbed, starting>>

Upload(u) ==
  \/ \E file \in Files, declared \in Contents \union {Nothing}, model \in Names \union {Nothing} :
        BuildDocument(u, file, declared, model)
  \/ PutAnswered(u)
  \/ Retry(u)
  \/ Refused(u)
-----------------------------------------------------------------------------
(***************************************************************************)
(* ai-training: a request fits a model, and publish_models() dumps it,     *)
(* reads the file twice, for the content and for the digest, and puts the  *)
(* document once.                                                          *)
(***************************************************************************)
\* What a retraining starts from; its artifact is not looked at.
BaseIsThere(t) == Base[t] # Nothing => catalog[Base[t]] # Nothing

\* A mistake: validate_training_classes() is not called.
FitAnyClasses(t) ==
  /\ step[t] = "start"
  /\ BaseIsThere(t)
  /\ \E model \in Fits[t] : To(fitted, t, model)
  /\ To(step, t, "fitted")
  /\ UNCHANGED <<clock, faults, catalog, late, document, attempts, filename, trained, disturbed, starting>>

\* A retraining reads the metadata of its base; the training rows must hold
\* every class, and the classes of the model are those of its rows.
Fit(t) ==
  /\ step[t] = "start"
  /\ BaseIsThere(t)
  /\ \E model \in Fits[t] : ClassesOf[model] = Classes /\ To(fitted, t, model)
  /\ To(step, t, "fitted")
  /\ UNCHANGED <<clock, faults, catalog, late, document, attempts, filename, trained, disturbed, starting>>

\* A request that is refused, a base that is not there or says nonsense of
\* its estimators, files that are missing or do not follow the schema.
FitFails(t) ==
  /\ step[t] = "start"
  /\ End(t, "failed")
  /\ UNCHANGED <<clock, faults, catalog, late, attempts, fitted, filename, trained, disturbed, starting>>

SameFile(t) == {s \in Trainings \ {t} : filename[s] = filename[t]}
Using(s) == step[s] \in {"dump", "content", "digest"}

\* dump() truncates the file, and others that use it are disturbed.
Dump(t) ==
  /\ step[t] = "fitted"
  /\ To(step, t, "dump")
  /\ To(trained, filename[t], Garbage)
  /\ disturbed' = disturbed \union {s \in SameFile(t) : Using(s)}
                  \union {x \in {t} : \E s \in SameFile(t) : step[s] = "dump"}
  /\ UNCHANGED <<clock, faults, catalog, late, document, attempts, fitted, filename, starting>>

\* With two writers the file may end up as a mixture.
Dumped(t) ==
  /\ step[t] = "dump"
  /\ To(step, t, "content")
  /\ \E c \in {fitted[t]} \union {x \in {Garbage} : t \in disturbed} : To(trained, filename[t], c)
  /\ disturbed' = disturbed \union {s \in SameFile(t) : Using(s)}
  /\ UNCHANGED <<clock, faults, catalog, late, document, attempts, fitted, filename, starting>>

\* The base64 of file_content.
ReadContent(t) ==
  /\ step[t] = "content"
  /\ To(step, t, "digest")
  /\ To(document, t, [content |-> trained[filename[t]]])
  /\ UNCHANGED <<clock, faults, catalog, late, attempts, fitted, filename, trained, disturbed, starting>>

\* The metadata has the LABEL_CORRESPONDENCE of all classes.
ReadDigest(t) ==
  /\ step[t] = "digest"
  /\ Build(t, filename[t], Classes, trained[filename[t]], document[t].content)
  /\ UNCHANGED <<faults, catalog, late, attempts, fitted, filename, trained, disturbed, starting>>

\* Any failure of the request returns None, and is not tried again.
PublishFails(t) ==
  /\ Unanswered(t)
  /\ End(t, "failed")
  /\ UNCHANGED <<clock, catalog, attempts, fitted, filename, trained, disturbed, starting>>

Train(t) ==
  \/ Fit(t) \/ FitFails(t)
  \/ Dump(t) \/ Dumped(t) \/ ReadContent(t) \/ ReadDigest(t)
  \/ PutAnswered(t) \/ PublishFails(t)
-----------------------------------------------------------------------------
(***************************************************************************)
(* ai-inference: the start of a replica.                                   *)
(***************************************************************************)
InCatalog == {catalog[c] : c \in {x \in Contents : catalog[x] # Nothing}}

\* list_models() sorts by uploaded_at and gets the newest documents, whatever
\* their names; older ones are not seen.
Listed == {d \in InCatalog : Cardinality({e \in InCatalog : e.time > d.time}) < SearchSize}

Matching == {d \in Listed : Selector \in {d.id, d.name}}

\* wait_for_model() takes the first of them.
IsNewest(d) == d \in Matching /\ \A e \in Matching : e.time <= d.time

\* A mistake: LOAD_MODEL is taken for the id of a model only.
DiscoverById(r) ==
  /\ pc[r] = "wait"
  /\ \E d \in Matching :
        /\ IsNewest(d) /\ d.id = Selector
        /\ To(record, r, [id |-> d.id, name |-> d.name, labels |-> d.labels])
  /\ To(pc, r, "download")
  /\ UNCHANGED <<faults, catalog, late, publishing, models, loaded>>

\* Requests that fail, and searches that find nothing, are repeated.
Discover(r) ==
  /\ pc[r] = "wait"
  /\ \E d \in Matching :
        /\ IsNewest(d)
        /\ To(record, r, [id |-> d.id, name |-> d.name, labels |-> d.labels])
  /\ To(pc, r, "download")
  /\ UNCHANGED <<faults, catalog, late, publishing, models, loaded>>

\* A mistake: the configured checksum is not checked.
VerifiedByTheCatalog(d, rec) ==
  d.name = rec.name /\ d.content = d.id /\ d.content = rec.id

\* The checks of download_model(); the recorded checksum is the id as well.
Verified(d, rec) ==
  /\ d.name = rec.name
  /\ d.content = d.id /\ d.content = rec.id
  /\ Pin \in {Nothing, d.content}

Exit(r) == To(pc, r, "down") /\ To(loaded, r, Nothing) /\ To(record, r, Nothing)

Download(r) ==
  /\ pc[r] = "download"
  /\ IF Verified(catalog[record[r].id], record[r])
       THEN To(pc, r, "replace") /\ UNCHANGED <<record, loaded>>
       ELSE Exit(r)
  /\ UNCHANGED <<faults, catalog, late, publishing, models>>

\* os.replace() of the temporary file, on the volume all replicas share.
Replace(r) ==
  /\ pc[r] = "replace"
  /\ To(models, record[r].name, record[r].id)
  /\ To(pc, r, "load")
  /\ UNCHANGED <<faults, catalog, late, publishing, record, loaded>>

\* joblib.load() and the checks of features, interval and labels: the labels
\* that were discovered are those of the classes, which count from 0.
Loads(content, labels) ==
  /\ content \in Artifacts /\ ClassesOf[content] = labels
  /\ \E k \in labels : labels = 0 .. k

Load(r) ==
  /\ pc[r] = "load"
  /\ LET content == models[record[r].name]
     IN  IF Loads(content, record[r].labels)
           THEN To(pc, r, "run") /\ To(loaded, r, content) /\ UNCHANGED record
           ELSE Exit(r)
  /\ UNCHANGED <<faults, catalog, late, publishing, models>>

\* A crash, or a download request that fails: nothing catches its exception.
Crash(r) ==
  /\ pc[r] # "down"
  /\ Fault
  /\ Exit(r)
  /\ UNCHANGED <<catalog, late, publishing, models>>

Restart(r) ==
  /\ pc[r] = "down"
  /\ To(pc, r, "wait")
  /\ UNCHANGED <<faults, catalog, late, publishing, models, record, loaded>>

Start(r) == Discover(r) \/ Download(r) \/ Replace(r) \/ Load(r) \/ Restart(r)
-----------------------------------------------------------------------------
Next ==
  \/ \E u \in Uploaders : Upload(u)
  \/ \E t \in Trainings : Train(t)
  \/ \E r \in Replicas : Start(r) \/ Crash(r)
  \/ ArriveLate

Spec == Init /\ [][Next]_vars

\* A replica that starts goes on, and one that failed is started again
\* (restart: unless-stopped).  Uploads may be made or not.
LiveSpec == Spec /\ \A r \in Replicas : WF_vars(Start(r))
-----------------------------------------------------------------------------
Steps == {"start", "fitted", "dump", "content", "digest", "put", "done", "failed"}

TypeOK ==
  /\ clock \in Nat /\ faults \in 0 .. MaxFaults
  /\ catalog \in [Contents -> Documents \union {Nothing}]
  /\ late \subseteq Documents
  /\ step \in [Publishers -> Steps]
  /\ document \in [Publishers -> Documents \union [content : Contents] \union {Nothing}]
  /\ attempts \in [Uploaders -> 0 .. MaxRetries]
  /\ filename \in [Trainings -> Names]
  /\ fitted \in [Trainings -> Artifacts \union {Nothing}]
  /\ trained \in [Names -> Contents \union {Nothing}]
  /\ disturbed \subseteq Trainings
  /\ models \in [Names -> Contents \union {Nothing}]
  /\ pc \in [Replicas -> {"down", "wait", "download", "replace", "load", "run"}]
  /\ record \in [Replicas -> Records \union {Nothing}]
  /\ loaded \in [Replicas -> Contents \union {Nothing}]

\* README.md 47-51: a replica runs the very bytes it has verified, and so
\* the SHA-256 in its messages is that of its model, although it verifies
\* a download and loads a file that other replicas replace, and although the
\* documents change between discovery and download.
LoadedIsVerified ==
  \A r \in Replicas :
     pc[r] = "run" => /\ loaded[r] = record[r].id
                      /\ Pin \in {Nothing, loaded[r]}

\* "Published idempotently by SHA-256" (README.md 300-301): however uploads
\* are retried and arrive, a document has another content than its id says
\* only if two trainings used the same file at the same time.
CorruptNeedsACollision ==
  (\E d \in InCatalog : d.content # d.id) => disturbed # {}

\* README.md 300-301, "published [...] with their feature schema": a training
\* that was answered with 201 left its model under the id in the answer, and
\* ai-inference, another service with checks of its own, loads that model
\* with the labels that trainings publish, unless a collision spoilt it.
\* What it was retrained from is in the catalog.
AnsweredIsLoadable ==
  \A t \in Trainings : step[t] = "done" =>
     /\ disturbed = {} => /\ fitted[t] \in Contents
                          /\ catalog[fitted[t]] # Nothing
                          /\ catalog[fitted[t]].content = fitted[t]
                          /\ Loads(fitted[t], Classes)
     /\ BaseIsThere(t)

\* The newest listed document that the replicas select is one that they can run.
Acceptable ==
  \E d \in Matching : /\ IsNewest(d)
                      /\ d.content = d.id /\ Loads(d.id, d.labels)
                      /\ Pin \in {Nothing, d.id}

\* Whatever a replica met before, it runs once the newest document of its
\* selector is and stays acceptable and within the SearchSize newest of the
\* catalog.  Other artifacts of that name keep it from starting, until the
\* pinned one is put again, and so do SearchSize newer documents of any name.
EventuallyRunning ==
  <>[]Acceptable => <>[](\A r \in Replicas : pc[r] = "run")
-----------------------------------------------------------------------------
(***************************************************************************)
(* The inductive invariants CInv, and Answers next to it, behind the       *)
(* theorems of ModelCatalogProofs.                                         *)
(***************************************************************************)
\* The one digest that a replica may load.
Known == IF Pin # Nothing THEN Pin ELSE Selector

\* What replicas wrote to the volume is the known artifact.
FilesAreKnown == \A n \in Names : models[n] \in {Nothing, Known}

\* From the verification on a replica holds the known artifact; the file it
\* is about to load is there.
RecordIsKnown ==
  \A r \in Replicas :
     /\ pc[r] \notin {"down", "wait"} => /\ record[r] \in Records
                                         /\ Selector \in {record[r].id, record[r].name}
     /\ pc[r] \in {"replace", "load", "run"} => record[r].id = Known
     /\ pc[r] = "load" => models[record[r].name] = Known
     /\ pc[r] = "run" => loaded[r] = Known

\* A publisher that puts has a document, and a training that reads a file.
DocumentsAreBuilt ==
  /\ \A p \in Publishers : step[p] = "put" => document[p] \in Documents
  /\ \A t \in Trainings : step[t] \in {"fitted", "dump"} => fitted[t] \in Artifacts
  /\ \A t \in Trainings : /\ Using(t) => trained[filename[t]] \in Contents
                          /\ step[t] = "digest" => document[t] \in [content : Contents]

\* An upload that is tried again has attempts left.
AttemptsLeft == \A u \in Uploaders : step[u] \in {"start", "put"} => attempts[u] < MaxRetries

\* A training that is not disturbed reads what it has written.
ReadsItsOwn ==
  \A t \in Trainings \ disturbed :
     /\ step[t] \in {"content", "digest"} => trained[filename[t]] = fitted[t]
     /\ step[t] = "digest" => document[t].content = fitted[t]

\* Without a collision all documents, the ones on their way included, have
\* the content that their id says.
Genuine(d) == d.content = d.id
AllGenuine ==
  disturbed = {} => /\ \A p \in Publishers : step[p] = "put" => Genuine(document[p])
                    /\ \A d \in late \union InCatalog : Genuine(d)

\* What a training works on is a model with all classes, whose base is there.
FitsAreWhole ==
  \A t \in Trainings : step[t] \notin {"start", "failed"} =>
     fitted[t] \in Artifacts /\ ClassesOf[fitted[t]] = Classes /\ BaseIsThere(t)

\* Nothing leaves the catalog, and each document is found under its id.
StoredUnderId == \A c \in Contents : catalog[c] # Nothing => catalog[c].id = c

\* Without a collision a training puts its model under its own checksum.
PutsItsOwn ==
  disturbed = {} => \A t \in Trainings :
     /\ step[t] = "put" => document[t].id = fitted[t]
     /\ step[t] = "done" => catalog[fitted[t]] # Nothing

Answers == FitsAreWhole /\ StoredUnderId /\ PutsItsOwn

CInv ==
  /\ TypeOK
  /\ FilesAreKnown
  /\ RecordIsKnown
  /\ DocumentsAreBuilt
  /\ AttemptsLeft
  /\ ReadsItsOwn
  /\ AllGenuine
=============================================================================
