------------------------- MODULE ModelCatalogProofs -------------------------
(***************************************************************************)
(* Proofs about ModelCatalog, for any publishers, artifacts and replicas.  *)
(***************************************************************************)
EXTENDS ModelCatalog, TLAPS

Volume == FilesAreKnown /\ RecordIsKnown
Publishing == DocumentsAreBuilt /\ ReadsItsOwn /\ AllGenuine

\* What a replica verified is the known artifact: by the pin, or because no
\* file name is a digest.
LEMMA VerifiedIsKnown ==
  ASSUME NEW d, NEW rec \in Records, Selector \in {rec.id, rec.name}, Verified(d, rec)
  PROVE  rec.id = Known
BY ConfigAssumption, DistinctAssumption DEF Verified, Known, Records

LEMMA InitCInv == Init => CInv
<1> SUFFICES ASSUME Init PROVE CInv
  OBVIOUS
<1>1. TypeOK
  BY PublisherAssumption DEF Init, TypeOK, Steps
<1>2. FilesAreKnown /\ RecordIsKnown
  BY DEF Init, FilesAreKnown, RecordIsKnown
<1>3. DocumentsAreBuilt /\ AttemptsLeft /\ ReadsItsOwn
  BY PublisherAssumption DEF Init, DocumentsAreBuilt, AttemptsLeft, ReadsItsOwn, Using, Publishers
<1>4. AllGenuine
  BY DEF Init, AllGenuine, InCatalog
<1>5. QED  BY <1>1, <1>2, <1>3, <1>4 DEF CInv

\* The publishers do not touch what the replicas hold, nor the other way round.
LEMMA ReplicasUntouched ==
  ASSUME Volume, UNCHANGED starting
  PROVE  Volume'
BY DEF Volume, FilesAreKnown, RecordIsKnown, starting, Known

LEMMA PublishersUntouched ==
  ASSUME Publishing, UNCHANGED <<catalog, late, publishing>>
  PROVE  Publishing'
BY DEF Publishing, DocumentsAreBuilt, ReadsItsOwn, AllGenuine, InCatalog, publishing, Using

-----------------------------------------------------------------------------
(* The catalog and the building of documents.                              *)

LEMMA StoreDocument ==
  ASSUME TypeOK, NEW d \in Documents, Store(d)
  PROVE  /\ catalog' \in [Contents -> Documents \union {Nothing}]
         /\ \A e \in InCatalog' : e = d \/ e \in InCatalog
<1>1. d.id \in Contents
  BY DEF Documents
<1>2. QED  BY <1>1 DEF TypeOK, Store, To, InCatalog

\* Building leaves the others' documents alone.
LEMMA BuildOne ==
  ASSUME CInv, NEW p \in Publishers, NEW id \in Contents, NEW content \in Contents,
         NEW name \in Names, NEW labels \in SUBSET Nat, Build(p, name, labels, id, content)
  PROVE  /\ clock' \in Nat
         /\ document' \in [Publishers -> Documents \union [content : Contents] \union {Nothing}]
         /\ step' \in [Publishers -> Steps]
         /\ document'[p] \in Documents /\ step'[p] = "put"
         /\ id = content => Genuine(document'[p])
         /\ \A q \in Publishers \ {p} : step'[q] = step[q] /\ document'[q] = document[q]
<1>1. [id |-> id, name |-> name, content |-> content, labels |-> labels, time |-> clock + 1]
        \in Documents
  BY DEF CInv, TypeOK, Documents
<1>2. QED  BY <1>1 DEF CInv, TypeOK, Build, To, Genuine, Steps

LEMMA EndOne ==
  ASSUME CInv, NEW p \in Publishers, NEW how \in {"done", "failed"}, End(p, how)
  PROVE  /\ document' \in [Publishers -> Documents \union [content : Contents] \union {Nothing}]
         /\ step' \in [Publishers -> Steps]
         /\ step'[p] = how
         /\ \A q \in Publishers \ {p} : step'[q] = step[q] /\ document'[q] = document[q]
BY DEF CInv, TypeOK, End, To, Steps

\* A publisher ends: the documents of the others stay as they are.
LEMMA EndKeepsPublishing ==
  ASSUME CInv, NEW p \in Publishers, NEW how \in {"done", "failed"}, End(p, how),
         UNCHANGED <<fitted, filename, trained, disturbed>>,
         \A d \in (late \union InCatalog)' : \/ d \in late \union InCatalog
                                             \/ step[p] = "put" /\ d = document[p]
  PROVE  Publishing'
<1>1. /\ step'[p] = how
      /\ \A q \in Publishers \ {p} : step'[q] = step[q] /\ document'[q] = document[q]
  BY EndOne
<1>2. DocumentsAreBuilt'
  BY <1>1 DEF CInv, DocumentsAreBuilt, Using, Publishers
<1>3. ReadsItsOwn'
  BY <1>1 DEF CInv, ReadsItsOwn, Publishers
<1>4. AllGenuine'
  BY <1>1 DEF CInv, AllGenuine
<1>5. QED  BY <1>2, <1>3, <1>4 DEF Publishing

LEMMA BuildKeepsPublishing ==
  ASSUME CInv, NEW p \in Publishers, NEW id \in Contents, NEW content \in Contents,
         NEW name \in Names, NEW labels \in SUBSET Nat, Build(p, name, labels, id, content),
         UNCHANGED <<fitted, filename, trained, disturbed, catalog, late>>,
         disturbed = {} => id = content
  PROVE  Publishing'
<1>1. /\ document'[p] \in Documents /\ step'[p] = "put"
      /\ id = content => Genuine(document'[p])
      /\ \A q \in Publishers \ {p} : step'[q] = step[q] /\ document'[q] = document[q]
  BY BuildOne
<1>2. DocumentsAreBuilt'
  BY <1>1 DEF CInv, DocumentsAreBuilt, Using, Publishers
<1>3. ReadsItsOwn'
  BY <1>1 DEF CInv, ReadsItsOwn, Publishers
<1>4. AllGenuine'
  BY <1>1 DEF CInv, AllGenuine, InCatalog
<1>5. QED  BY <1>2, <1>3, <1>4 DEF Publishing

-----------------------------------------------------------------------------
(* Steps of the publishers.                                                *)

LEMMA PutAnsweredStep ==
  ASSUME CInv, NEW p \in Publishers, PutAnswered(p)
  PROVE  CInv'
<1>1. document[p] \in Documents
  BY DEF CInv, PutAnswered, DocumentsAreBuilt
<1>2. /\ catalog' \in [Contents -> Documents \union {Nothing}]
      /\ \A e \in InCatalog' : e = document[p] \/ e \in InCatalog
  <2>1. PICK d \in Documents : d = document[p]
    BY <1>1
  <2>2. TypeOK /\ Store(d)
    BY <2>1 DEF CInv, PutAnswered, Store, To
  <2>3. QED  BY <2>1, <2>2, StoreDocument
<1>3. End(p, "done")
  BY DEF PutAnswered
<1>4. TypeOK'
  BY <1>2, <1>3, EndOne DEF CInv, TypeOK, PutAnswered, starting
<1>5. Publishing'
  BY <1>2, <1>3, EndKeepsPublishing DEF PutAnswered
<1>6. Volume'
  BY ReplicasUntouched DEF CInv, Volume, PutAnswered
<1>7. AttemptsLeft'
  BY <1>3, EndOne DEF CInv, AttemptsLeft, PutAnswered, Publishers
<1>8. QED  BY <1>4, <1>5, <1>6, <1>7 DEF CInv, Publishing, Volume

LEMMA BuildDocumentStep ==
  ASSUME CInv, NEW u \in Uploaders, NEW file \in Files, NEW declared, NEW model,
         BuildDocument(u, file, declared, model)
  PROVE  CInv'
<1>1. /\ u \in Publishers /\ file.artifact \in Contents
      /\ file.name \in Names /\ file.labels \in SUBSET Nat
  <2>1. file.name \in {f.name : f \in Files}
    OBVIOUS
  <2>2. file.name \in Names
    BY <2>1 DEF Names
  <2>3. QED  BY <2>2, PublisherAssumption DEF Publishers, Contents
<1>2. Volume'
  BY ReplicasUntouched DEF CInv, Volume, BuildDocument
<1>3. CASE Build(u, file.name, file.labels, file.artifact, file.artifact)
  <2>1. TypeOK'
    BY <1>1, <1>3, BuildOne DEF CInv, TypeOK, BuildDocument, starting
  <2>2. Publishing'
    BY <1>1, <1>3, BuildKeepsPublishing DEF BuildDocument
  <2>3. AttemptsLeft'
    BY <1>1, <1>3, BuildOne DEF CInv, AttemptsLeft, BuildDocument, Publishers
  <2>4. QED  BY <1>2, <2>1, <2>2, <2>3 DEF CInv, Publishing, Volume
<1>4. CASE End(u, "failed") /\ UNCHANGED clock
  <2>1. TypeOK'
    BY <1>1, <1>4, EndOne DEF CInv, TypeOK, BuildDocument, starting
  <2>2. Publishing'
    BY <1>1, <1>4, EndKeepsPublishing DEF BuildDocument, InCatalog
  <2>3. AttemptsLeft'
    BY <1>1, <1>4, EndOne DEF CInv, AttemptsLeft, BuildDocument, Publishers
  <2>4. QED  BY <1>2, <2>1, <2>2, <2>3 DEF CInv, Publishing, Volume
<1>5. QED  BY <1>3, <1>4 DEF BuildDocument

\* Late requests carry the documents of their publishers.
LEMMA LateDocuments ==
  ASSUME CInv, NEW p \in Publishers, Unanswered(p)
  PROVE  /\ late' \subseteq Documents /\ faults' \in 0 .. MaxFaults
         /\ step[p] = "put"
         /\ \A d \in late' : d \in late \/ d = document[p]
<1>1. document[p] \in Documents
  BY DEF CInv, Unanswered, DocumentsAreBuilt
<1>2. QED  BY <1>1, PublisherAssumption DEF CInv, TypeOK, Unanswered, Fault

LEMMA RetryStep ==
  ASSUME CInv, NEW u \in Uploaders, Retry(u)
  PROVE  CInv'
<1>1. u \in Publishers
  BY DEF Publishers
<1>2. /\ late' \subseteq Documents /\ faults' \in 0 .. MaxFaults
      /\ step[u] = "put"
      /\ \A d \in late' : d \in late \/ d = document[u]
  BY <1>1, LateDocuments DEF Retry
<1>3. attempts[u] < MaxRetries /\ attempts[u] \in Nat
  BY <1>2 DEF CInv, AttemptsLeft, TypeOK
<1>4. /\ attempts' \in [Uploaders -> 0 .. MaxRetries]
      /\ attempts'[u] = attempts[u] + 1
      /\ \A v \in Uploaders \ {u} : attempts'[v] = attempts[v]
  BY <1>3, PublisherAssumption DEF CInv, TypeOK, Retry, To
<1>5. Volume'
  BY ReplicasUntouched DEF CInv, Volume, Retry
<1>6. \A d \in (late \union InCatalog)' : \/ d \in late \union InCatalog
                                          \/ step[u] = "put" /\ d = document[u]
  <2>1. InCatalog' = InCatalog
    BY DEF Retry, InCatalog
  <2>2. QED  BY <1>2, <2>1
<1>7. CASE End(u, "failed")
  <2>1. TypeOK'
    BY <1>1, <1>2, <1>4, <1>7, EndOne DEF CInv, TypeOK, Retry, starting
  <2>2. Publishing'
    BY <1>1, <1>6, <1>7, EndKeepsPublishing DEF Retry
  <2>3. AttemptsLeft'
    BY <1>1, <1>4, <1>7, EndOne DEF CInv, AttemptsLeft, Publishers
  <2>4. QED  BY <1>5, <2>1, <2>2, <2>3 DEF CInv, Publishing, Volume
<1>8. CASE ~GivesUp(u) /\ UNCHANGED <<step, document>>
  <2>1. TypeOK'
    BY <1>2, <1>4, <1>8 DEF CInv, TypeOK, Retry, starting
  <2>2. DocumentsAreBuilt' /\ ReadsItsOwn'
    BY <1>8 DEF CInv, DocumentsAreBuilt, ReadsItsOwn, Using, Retry
  <2>3. AllGenuine'
    BY <1>1, <1>6, <1>8 DEF CInv, AllGenuine, Retry
  <2>4. AttemptsLeft'
    BY <1>3, <1>4, <1>8, PublisherAssumption DEF CInv, AttemptsLeft, GivesUp
  <2>5. QED  BY <1>5, <2>1, <2>2, <2>3, <2>4 DEF CInv, Publishing, Volume
<1>9. QED  BY <1>7, <1>8 DEF Retry

LEMMA RefusedStep ==
  ASSUME CInv, NEW u \in Uploaders, Refused(u)
  PROVE  CInv'
<1>1. u \in Publishers /\ End(u, "failed")
  BY DEF Publishers, Refused
<1>2. faults' \in 0 .. MaxFaults
  BY PublisherAssumption DEF CInv, TypeOK, Refused, Fault
<1>3. TypeOK'
  BY <1>1, <1>2, EndOne DEF CInv, TypeOK, Refused, starting
<1>4. Publishing'
  BY <1>1, EndKeepsPublishing DEF Refused, InCatalog
<1>5. Volume'
  BY ReplicasUntouched DEF CInv, Volume, Refused
<1>6. AttemptsLeft'
  BY <1>1, EndOne DEF CInv, AttemptsLeft, Refused, Publishers
<1>7. QED  BY <1>3, <1>4, <1>5, <1>6 DEF CInv, Publishing, Volume

LEMMA PublishFailsStep ==
  ASSUME CInv, NEW t \in Trainings, PublishFails(t)
  PROVE  CInv'
<1>1. t \in Publishers /\ End(t, "failed")
  BY DEF Publishers, PublishFails
<1>2. /\ late' \subseteq Documents /\ faults' \in 0 .. MaxFaults
      /\ step[t] = "put"
      /\ \A d \in late' : d \in late \/ d = document[t]
  BY <1>1, LateDocuments DEF PublishFails
<1>3. TypeOK'
  BY <1>1, <1>2, EndOne DEF CInv, TypeOK, PublishFails, starting
<1>4. Publishing'
  BY <1>1, <1>2, EndKeepsPublishing DEF PublishFails, InCatalog
<1>5. Volume'
  BY ReplicasUntouched DEF CInv, Volume, PublishFails
<1>6. AttemptsLeft'
  BY <1>1, EndOne DEF CInv, AttemptsLeft, PublishFails, Publishers
<1>7. QED  BY <1>3, <1>4, <1>5, <1>6 DEF CInv, Publishing, Volume

LEMMA ArriveLateStep ==
  ASSUME CInv, ArriveLate
  PROVE  CInv'
<1>1. PICK d \in late : Store(d) /\ late' = late \ {d}
  BY DEF ArriveLate
<1>2. d \in Documents /\ TypeOK
  BY DEF CInv, TypeOK
<1>3. /\ catalog' \in [Contents -> Documents \union {Nothing}]
      /\ \A e \in InCatalog' : e = d \/ e \in InCatalog
  BY <1>1, <1>2, StoreDocument
<1>4. TypeOK'
  BY <1>1, <1>2, <1>3 DEF TypeOK, ArriveLate, publishing, starting
<1>5. DocumentsAreBuilt' /\ ReadsItsOwn' /\ AttemptsLeft'
  BY DEF CInv, DocumentsAreBuilt, ReadsItsOwn, AttemptsLeft, Using, ArriveLate, publishing
<1>6. AllGenuine'
  BY <1>1, <1>3 DEF CInv, AllGenuine, ArriveLate, publishing
<1>7. Volume'
  BY ReplicasUntouched DEF CInv, Volume, ArriveLate
<1>8. QED  BY <1>4, <1>5, <1>6, <1>7 DEF CInv, Volume

-----------------------------------------------------------------------------
(* Trainings share files.                                                  *)

LEMMA FitStep ==
  ASSUME CInv, NEW t \in Trainings, Fit(t)
  PROVE  CInv'
<1>1. /\ t \in Publishers /\ step'[t] = "fitted" /\ step[t] = "start"
      /\ \A q \in Publishers \ {t} : step'[q] = step[q]
      /\ fitted' \in [Trainings -> Artifacts \union {Nothing}] /\ fitted'[t] \in Artifacts
      /\ \A s \in Trainings \ {t} : fitted'[s] = fitted[s]
  BY PublisherAssumption DEF CInv, TypeOK, Fit, To, Publishers
<1>2. TypeOK'
  BY <1>1 DEF CInv, TypeOK, Fit, To, starting, Steps
<1>3. DocumentsAreBuilt' /\ AttemptsLeft' /\ ReadsItsOwn'
  BY <1>1, PublisherAssumption DEF CInv, DocumentsAreBuilt, AttemptsLeft, ReadsItsOwn, Using,
     Fit, Publishers
<1>4. AllGenuine'
  BY <1>1 DEF CInv, AllGenuine, Fit, InCatalog
<1>5. Volume'
  BY ReplicasUntouched DEF CInv, Volume, Fit
<1>6. QED  BY <1>2, <1>3, <1>4, <1>5 DEF CInv, Volume

LEMMA FitFailsStep ==
  ASSUME CInv, NEW t \in Trainings, FitFails(t)
  PROVE  CInv'
<1>1. t \in Publishers /\ End(t, "failed")
  BY DEF Publishers, FitFails
<1>2. TypeOK'
  BY <1>1, EndOne DEF CInv, TypeOK, FitFails, starting
<1>3. Publishing'
  BY <1>1, EndKeepsPublishing DEF FitFails, InCatalog
<1>4. Volume'
  BY ReplicasUntouched DEF CInv, Volume, FitFails
<1>5. AttemptsLeft'
  BY <1>1, EndOne DEF CInv, AttemptsLeft, FitFails, Publishers
<1>6. QED  BY <1>2, <1>3, <1>4, <1>5 DEF CInv, Publishing, Volume

LEMMA DumpStep ==
  ASSUME CInv, NEW t \in Trainings, Dump(t)
  PROVE  CInv'
<1>1. /\ t \in Publishers /\ filename[t] \in Names
      /\ \A s \in Trainings : s \in Publishers /\ filename[s] \in Names
  BY DEF CInv, TypeOK, Publishers
<1>2. /\ step'[t] = "dump" /\ step[t] = "fitted"
      /\ \A q \in Publishers \ {t} : step'[q] = step[q]
      /\ trained'[filename[t]] = Garbage
      /\ \A n \in Names \ {filename[t]} : trained'[n] = trained[n]
      /\ disturbed \subseteq disturbed' /\ disturbed' \subseteq Trainings
      /\ \A s \in Trainings \ {t} : Using(s) /\ filename[s] = filename[t] => s \in disturbed'
  BY <1>1 DEF CInv, TypeOK, Dump, To, SameFile
<1>3. TypeOK'
  BY <1>1, <1>2 DEF CInv, TypeOK, Dump, To, starting, Contents, Steps
<1>4. DocumentsAreBuilt'
  <2>1. \A p \in Publishers : step'[p] = "put" => document'[p] \in Documents
    BY <1>1, <1>2 DEF CInv, DocumentsAreBuilt, Dump
  <2>2. ASSUME NEW s \in Trainings, Using(s)'
        PROVE  trained'[filename'[s]] \in Contents
    <3>1. CASE filename[s] = filename[t]
      BY <1>1, <1>2, <3>1 DEF Contents, Dump
    <3>2. CASE filename[s] # filename[t]
      <4>1. s # t /\ Using(s)
        BY <1>1, <1>2, <2>2, <3>2 DEF Using
      <4>2. trained[filename[s]] \in Contents
        BY <4>1 DEF CInv, DocumentsAreBuilt
      <4>3. QED  BY <1>1, <1>2, <3>2, <4>2 DEF Dump
    <3>3. QED  BY <3>1, <3>2
  <2>3. \A s \in Trainings : step'[s] = "digest" => document'[s] \in [content : Contents]
    BY <1>1, <1>2 DEF CInv, DocumentsAreBuilt, Dump
  <2>4. \A s \in Trainings : step'[s] \in {"fitted", "dump"} => fitted'[s] \in Artifacts
    BY <1>1, <1>2 DEF CInv, DocumentsAreBuilt, Dump
  <2>5. QED  BY <2>1, <2>2, <2>3, <2>4 DEF DocumentsAreBuilt
<1>5. AttemptsLeft'
  BY <1>1, <1>2, PublisherAssumption DEF CInv, AttemptsLeft, Dump, Publishers
<1>6. ReadsItsOwn'
  BY <1>1, <1>2 DEF CInv, ReadsItsOwn, Using, Dump
<1>7. AllGenuine'
  BY <1>1, <1>2 DEF CInv, AllGenuine, Dump, InCatalog
<1>8. Volume'
  BY ReplicasUntouched DEF CInv, Volume, Dump
<1>9. QED  BY <1>3, <1>4, <1>5, <1>6, <1>7, <1>8 DEF CInv, Volume

LEMMA DumpedStep ==
  ASSUME CInv, NEW t \in Trainings, Dumped(t)
  PROVE  CInv'
<1>1. /\ t \in Publishers /\ filename[t] \in Names /\ fitted[t] \in Artifacts
      /\ \A s \in Trainings : s \in Publishers /\ filename[s] \in Names
  BY DEF CInv, TypeOK, DocumentsAreBuilt, Dumped, Publishers
<1>2. PICK c \in {fitted[t]} \union {x \in {Garbage} : t \in disturbed} : To(trained, filename[t], c)
  BY DEF Dumped
<1>3. c \in Contents /\ (t \notin disturbed => c = fitted[t])
  BY <1>1 DEF Contents
<1>4. /\ step'[t] = "content" /\ step[t] = "dump"
      /\ \A q \in Publishers \ {t} : step'[q] = step[q]
      /\ trained'[filename[t]] = c
      /\ \A n \in Names \ {filename[t]} : trained'[n] = trained[n]
      /\ disturbed \subseteq disturbed' /\ disturbed' \subseteq Trainings
      /\ \A s \in Trainings \ {t} : Using(s) /\ filename[s] = filename[t] => s \in disturbed'
  BY <1>1, <1>2 DEF CInv, TypeOK, Dumped, To, SameFile
<1>5. TypeOK'
  BY <1>1, <1>2, <1>3, <1>4 DEF CInv, TypeOK, Dumped, To, starting, Steps
<1>6. DocumentsAreBuilt'
  <2>1. \A p \in Publishers : step'[p] = "put" => document'[p] \in Documents
    BY <1>1, <1>3, <1>4 DEF CInv, DocumentsAreBuilt, Dumped
  <2>2. ASSUME NEW s \in Trainings, Using(s)'
        PROVE  trained'[filename'[s]] \in Contents
    <3>1. CASE filename[s] = filename[t]
      BY <1>1, <1>3, <1>4, <3>1 DEF Contents, Dumped
    <3>2. CASE filename[s] # filename[t]
      <4>1. s # t /\ Using(s)
        BY <1>1, <1>3, <1>4, <2>2, <3>2 DEF Using
      <4>2. trained[filename[s]] \in Contents
        BY <4>1 DEF CInv, DocumentsAreBuilt
      <4>3. QED  BY <1>1, <1>3, <1>4, <3>2, <4>2 DEF Dumped
    <3>3. QED  BY <3>1, <3>2
  <2>3. \A s \in Trainings : step'[s] = "digest" => document'[s] \in [content : Contents]
    BY <1>1, <1>3, <1>4 DEF CInv, DocumentsAreBuilt, Dumped
  <2>4. \A s \in Trainings : step'[s] \in {"fitted", "dump"} => fitted'[s] \in Artifacts
    BY <1>1, <1>4 DEF CInv, DocumentsAreBuilt, Dumped
  <2>5. QED  BY <2>1, <2>2, <2>3, <2>4 DEF DocumentsAreBuilt
<1>7. AttemptsLeft'
  BY <1>1, <1>4 DEF CInv, AttemptsLeft, Dumped, Publishers
<1>8. ReadsItsOwn'
  BY <1>1, <1>3, <1>4 DEF CInv, ReadsItsOwn, Using, Dumped
<1>9. AllGenuine'
  BY <1>1, <1>4 DEF CInv, AllGenuine, Dumped, InCatalog
<1>10. Volume'
  BY ReplicasUntouched DEF CInv, Volume, Dumped
<1>11. QED  BY <1>5, <1>6, <1>7, <1>8, <1>9, <1>10 DEF CInv, Volume

LEMMA ReadContentStep ==
  ASSUME CInv, NEW t \in Trainings, ReadContent(t)
  PROVE  CInv'
<1>1. t \in Publishers /\ trained[filename[t]] \in Contents
  BY DEF CInv, DocumentsAreBuilt, Using, ReadContent, Publishers
<1>2. /\ step'[t] = "digest" /\ step[t] = "content"
      /\ document'[t] = [content |-> trained[filename[t]]]
      /\ \A q \in Publishers \ {t} : step'[q] = step[q] /\ document'[q] = document[q]
  BY <1>1 DEF CInv, TypeOK, ReadContent, To
<1>3. TypeOK'
  BY <1>1 DEF CInv, TypeOK, ReadContent, To, starting, Steps
<1>4. DocumentsAreBuilt'
  BY <1>1, <1>2 DEF CInv, DocumentsAreBuilt, Using, ReadContent, Publishers
<1>5. AttemptsLeft'
  BY <1>1, <1>2, PublisherAssumption DEF CInv, AttemptsLeft, ReadContent, Publishers
<1>6. ReadsItsOwn'
  BY <1>1, <1>2 DEF CInv, ReadsItsOwn, ReadContent, Publishers
<1>7. AllGenuine'
  BY <1>1, <1>2 DEF CInv, AllGenuine, ReadContent, InCatalog
<1>8. Volume'
  BY ReplicasUntouched DEF CInv, Volume, ReadContent
<1>9. QED  BY <1>3, <1>4, <1>5, <1>6, <1>7, <1>8 DEF CInv, Volume

LEMMA ReadDigestStep ==
  ASSUME CInv, NEW t \in Trainings, ReadDigest(t)
  PROVE  CInv'
<1>1. /\ t \in Publishers
      /\ trained[filename[t]] \in Contents /\ document[t].content \in Contents
  BY DEF CInv, DocumentsAreBuilt, Using, ReadDigest, Publishers
<1>2. PICK name \in Names, id \in Contents, content \in Contents :
         name = filename[t] /\ id = trained[filename[t]] /\ content = document[t].content
  BY <1>1 DEF CInv, TypeOK
<1>3. /\ Build(t, name, Classes, id, content)
      /\ disturbed = {} => id = content
  <2>1. Build(t, name, Classes, id, content)
    BY <1>2 DEF ReadDigest, Build, To
  <2>2. disturbed = {} => id = content
    BY <1>2 DEF CInv, ReadsItsOwn, ReadDigest
  <2>3. QED  BY <2>1, <2>2
<1>4. /\ UNCHANGED <<faults, catalog, late, attempts, fitted, filename, trained, disturbed, starting>>
      /\ Classes \in SUBSET Nat
  BY PublisherAssumption DEF ReadDigest
<1>5. TypeOK'
  BY <1>1, <1>3, <1>4, BuildOne DEF CInv, TypeOK, starting, Steps
<1>6. Publishing'
  BY <1>1, <1>3, <1>4, BuildKeepsPublishing
<1>7. AttemptsLeft'
  <2>1. t \notin Uploaders
    BY PublisherAssumption
  <2>2. QED  BY <1>1, <1>3, <1>4, <2>1, BuildOne DEF CInv, AttemptsLeft, Publishers
<1>8. Volume'
  BY <1>4, ReplicasUntouched DEF CInv, Volume
<1>9. QED  BY <1>5, <1>6, <1>7, <1>8 DEF CInv, Publishing, Volume

-----------------------------------------------------------------------------
(* Steps of the replicas.                                                  *)

\* The publishers' part of the invariant, for a step of a replica.
LEMMA OfAReplica ==
  ASSUME CInv, UNCHANGED <<catalog, late, publishing>>
  PROVE  DocumentsAreBuilt' /\ AttemptsLeft' /\ ReadsItsOwn' /\ AllGenuine'
<1>1. Publishing'
  BY PublishersUntouched DEF CInv, Publishing
<1>2. QED  BY <1>1 DEF CInv, Publishing, AttemptsLeft, publishing

LEMMA DiscoverStep ==
  ASSUME CInv, NEW r \in Replicas, Discover(r)
  PROVE  CInv'
<1>1. PICK d \in Matching : To(record, r, [id |-> d.id, name |-> d.name, labels |-> d.labels])
  BY DEF Discover
<1>2. d \in Documents /\ Selector \in {d.id, d.name}
  BY DEF CInv, TypeOK, Matching, Listed, InCatalog
<1>3. [id |-> d.id, name |-> d.name, labels |-> d.labels] \in Records
  BY <1>2 DEF Documents, Records
<1>4. TypeOK'
  BY <1>1, <1>3 DEF CInv, TypeOK, Discover, To, publishing
<1>5. FilesAreKnown'
  BY DEF CInv, FilesAreKnown, Discover, Known
<1>6. /\ record'[r] \in Records /\ Selector \in {record'[r].id, record'[r].name}
      /\ pc'[r] = "download"
      /\ \A q \in Replicas \ {r} : pc'[q] = pc[q] /\ record'[q] = record[q]
  BY <1>1, <1>2, <1>3 DEF CInv, TypeOK, Discover, To
<1>7. RecordIsKnown'
  BY <1>6 DEF CInv, RecordIsKnown, Discover, Known
<1>8. QED  BY <1>4, <1>5, <1>7, OfAReplica DEF CInv, Discover

\* A replica that exits owes nothing.
LEMMA ExitStep ==
  ASSUME CInv, NEW r \in Replicas, Exit(r), UNCHANGED <<catalog, late, publishing, models>>,
         faults' \in 0 .. MaxFaults
  PROVE  CInv'
<1>1. TypeOK'
  BY DEF CInv, TypeOK, Exit, To, publishing
<1>2. FilesAreKnown' /\ RecordIsKnown'
  BY DEF CInv, TypeOK, FilesAreKnown, RecordIsKnown, Exit, To, Known
<1>3. QED  BY <1>1, <1>2, OfAReplica DEF CInv

LEMMA DownloadStep ==
  ASSUME CInv, NEW r \in Replicas, Download(r)
  PROVE  CInv'
<1>1. CASE Exit(r)
  BY <1>1, ExitStep DEF CInv, TypeOK, Download
<1>2. CASE /\ Verified(catalog[record[r].id], record[r])
           /\ To(pc, r, "replace") /\ UNCHANGED <<record, loaded>>
  <2>1. record[r] \in Records /\ Selector \in {record[r].id, record[r].name}
    BY DEF CInv, RecordIsKnown, Download
  <2>2. record[r].id = Known
    BY <1>2, <2>1, VerifiedIsKnown
  <2>3. TypeOK'
    BY <1>2 DEF CInv, TypeOK, Download, To, publishing
  <2>4. /\ pc'[r] = "replace"
        /\ \A q \in Replicas \ {r} : pc'[q] = pc[q]
    BY <1>2 DEF CInv, TypeOK, To
  <2>5. FilesAreKnown'
    BY DEF CInv, FilesAreKnown, Download, Known
  <2>6. RecordIsKnown'
    BY <1>2, <2>1, <2>2, <2>4 DEF CInv, RecordIsKnown, Download, Known
  <2>7. QED  BY <2>3, <2>5, <2>6, OfAReplica DEF CInv, Download
<1>3. QED  BY <1>1, <1>2 DEF Download

LEMMA ReplaceStep ==
  ASSUME CInv, NEW r \in Replicas, Replace(r)
  PROVE  CInv'
<1>1. record[r] \in Records /\ record[r].id = Known
  BY DEF CInv, RecordIsKnown, Replace
<1>2. record[r].id \in Contents /\ record[r].name \in Names
  BY <1>1 DEF Records
<1>3. TypeOK'
  BY <1>2 DEF CInv, TypeOK, Replace, To, publishing
<1>4. /\ pc'[r] = "load" /\ pc[r] = "replace"
      /\ \A q \in Replicas \ {r} : pc'[q] = pc[q]
      /\ models'[record[r].name] = Known
      /\ \A n \in Names : models'[n] = models[n] \/ models'[n] = Known
  BY <1>1, <1>2 DEF CInv, TypeOK, Replace, To
<1>5. FilesAreKnown'
  BY <1>4 DEF CInv, FilesAreKnown, Known
<1>6. RecordIsKnown'
  <2>1. \A q \in Replicas : pc[q] = "load" => record[q].name \in Names
    BY DEF CInv, RecordIsKnown, Records
  <2>2. QED  BY <1>1, <1>2, <1>4, <2>1 DEF CInv, RecordIsKnown, Replace, Known
<1>7. QED  BY <1>3, <1>5, <1>6, OfAReplica DEF CInv, Replace

LEMMA LoadStep ==
  ASSUME CInv, NEW r \in Replicas, Load(r)
  PROVE  CInv'
<1>1. models[record[r].name] = Known
  BY DEF CInv, RecordIsKnown, Load
<1>2. CASE Exit(r)
  BY <1>2, ExitStep DEF CInv, TypeOK, Load
<1>3. CASE /\ Loads(models[record[r].name], record[r].labels)
           /\ To(pc, r, "run") /\ To(loaded, r, models[record[r].name]) /\ UNCHANGED record
  <2>1. Known \in Contents
    BY <1>1, <1>3 DEF Contents, Loads
  <2>2. TypeOK'
    BY <1>1, <1>3, <2>1 DEF CInv, TypeOK, Load, To, publishing
  <2>3. /\ pc'[r] = "run" /\ pc[r] = "load" /\ loaded'[r] = Known
        /\ \A q \in Replicas \ {r} : pc'[q] = pc[q] /\ loaded'[q] = loaded[q]
    BY <1>1, <1>3 DEF CInv, TypeOK, Load, To
  <2>4. FilesAreKnown'
    BY DEF CInv, FilesAreKnown, Load, Known
  <2>5. RecordIsKnown'
    BY <1>3, <2>3 DEF CInv, RecordIsKnown, Load, Known
  <2>6. QED  BY <2>2, <2>4, <2>5, OfAReplica DEF CInv, Load
<1>4. QED  BY <1>2, <1>3 DEF Load

LEMMA RestartStep ==
  ASSUME CInv, NEW r \in Replicas, Restart(r)
  PROVE  CInv'
<1>1. TypeOK'
  BY DEF CInv, TypeOK, Restart, To, publishing
<1>2. FilesAreKnown' /\ RecordIsKnown'
  BY DEF CInv, TypeOK, FilesAreKnown, RecordIsKnown, Restart, To, Known
<1>3. QED  BY <1>1, <1>2, OfAReplica DEF CInv, Restart

LEMMA CrashStep ==
  ASSUME CInv, NEW r \in Replicas, Crash(r)
  PROVE  CInv'
<1>1. faults' \in 0 .. MaxFaults
  BY PublisherAssumption DEF CInv, TypeOK, Crash, Fault
<1>2. QED  BY <1>1, ExitStep DEF Crash

-----------------------------------------------------------------------------
(* What trainings answer.                                                  *)

\* A step stores a document that its publisher puts, or one that is late, or
\* leaves the catalog alone; it never takes a document away.
LEMMA CatalogGrows ==
  ASSUME CInv, StoredUnderId, [Next]_vars
  PROVE  /\ StoredUnderId'
         /\ \A c \in Contents : catalog[c] # Nothing => catalog'[c] # Nothing
<1>1. CASE UNCHANGED catalog
  BY <1>1 DEF StoredUnderId
<1>2. ASSUME NEW d \in Documents, Store(d)
      PROVE  /\ StoredUnderId'
             /\ \A c \in Contents : catalog[c] # Nothing => catalog'[c] # Nothing
  BY <1>2, DistinctAssumption DEF CInv, TypeOK, StoredUnderId, Store, To, Documents
<1>3. ASSUME NEW p \in Publishers, PutAnswered(p)
      PROVE  \E d \in Documents : Store(d)
  <2>1. document[p] \in Documents
    BY <1>3 DEF CInv, DocumentsAreBuilt, PutAnswered
  <2>2. PICK d \in Documents : d = document[p]
    BY <2>1
  <2>3. Store(d)
    BY <1>3, <2>2 DEF PutAnswered, Store, To
  <2>4. QED  BY <2>3
<1>4. ASSUME ArriveLate PROVE \E d \in Documents : Store(d)
  BY <1>4 DEF CInv, TypeOK, ArriveLate
<1>5. UNCHANGED catalog \/ ArriveLate \/ \E p \in Publishers : PutAnswered(p)
  BY DEF Next, vars, Upload, Train, Start, BuildDocument, Retry, Refused, Fit, FitFails, Dump,
     Dumped, ReadContent, ReadDigest, PublishFails, Discover, Download, Replace, Load, Crash,
     Restart, Publishers
<1>6. QED  BY <1>1, <1>2, <1>3, <1>4, <1>5

\* A step of one training; the others stay where they are with what they have.
Alone(t) ==
  /\ UNCHANGED fitted
  /\ \A s \in Trainings \ {t} : step'[s] = step[s] /\ document'[s] = document[s]

LEMMA Solo ==
  ASSUME CInv, NEW t \in Trainings, Train(t), ~Fit(t)
  PROVE  /\ Alone(t)
         /\ step[t] \in {"start", "failed"} => step'[t] = "failed"
         /\ step'[t] = "put" => ReadDigest(t)
         /\ step'[t] = "done" => PutAnswered(t)
         /\ disturbed \subseteq disturbed'
BY DEF CInv, TypeOK, Train, Alone, Publishers, FitFails, Dump, Dumped, ReadContent, ReadDigest,
   PutAnswered, PublishFails, Unanswered, Build, End, To, Publishers

\* What the others do leaves the trainings alone.
LEMMA NotTraining ==
  ASSUME CInv, [Next]_vars, ~\E t \in Trainings : Train(t)
  PROVE  /\ UNCHANGED <<fitted, disturbed>>
         /\ \A s \in Trainings : step'[s] = step[s] /\ document'[s] = document[s]
<1>1. ASSUME NEW u \in Uploaders, Upload(u)
      PROVE  /\ UNCHANGED <<fitted, disturbed>>
             /\ \A s \in Trainings : step'[s] = step[s] /\ document'[s] = document[s]
  <2>1. UNCHANGED <<fitted, disturbed>>
    BY <1>1 DEF Upload, BuildDocument, PutAnswered, Retry, Refused
  <2>2. \/ UNCHANGED <<step, document>>
        \/ \E x, y : To(step, u, x) /\ To(document, u, y)
    BY <1>1 DEF Upload, BuildDocument, PutAnswered, Retry, Refused, Build, End
  <2>3. ASSUME NEW s \in Trainings
        PROVE  step'[s] = step[s] /\ document'[s] = document[s]
    <3>1. s # u /\ s \in Publishers
      BY PublisherAssumption DEF Publishers
    <3>2. QED  BY <2>2, <3>1 DEF CInv, TypeOK, To
  <2>4. QED  BY <2>1, <2>3
<1>2. CASE ArriveLate
  BY <1>2 DEF ArriveLate, publishing
<1>3. ASSUME NEW r \in Replicas, Start(r) \/ Crash(r)
      PROVE  UNCHANGED publishing
  BY <1>3 DEF Start, Discover, Download, Replace, Load, Restart, Crash
<1>4. QED  BY <1>1, <1>2, <1>3 DEF Next, vars, publishing

LEMMA FitsStayWhole ==
  ASSUME CInv, Answers, [Next]_vars
  PROVE  FitsAreWhole'
<1>1. \A t \in Trainings : BaseIsThere(t) => BaseIsThere(t)'
  BY CatalogGrows, PublisherAssumption DEF Answers, BaseIsThere
<1>2. ASSUME NEW t \in Trainings, Fit(t) PROVE FitsAreWhole'
  <2>1. /\ fitted'[t] \in Artifacts /\ ClassesOf[fitted'[t]] = Classes /\ BaseIsThere(t)
        /\ \A s \in Trainings \ {t} : step'[s] = step[s] /\ fitted'[s] = fitted[s]
    BY <1>2, PublisherAssumption DEF CInv, TypeOK, Fit, To, Publishers
  <2>2. QED  BY <1>1, <2>1 DEF Answers, FitsAreWhole
<1>3. ASSUME NEW t \in Trainings, Train(t), ~Fit(t) PROVE FitsAreWhole'
  BY <1>1, <1>3, Solo DEF Answers, FitsAreWhole, Alone
<1>4. CASE ~\E t \in Trainings : Train(t)
  BY <1>1, <1>4, NotTraining DEF Answers, FitsAreWhole
<1>5. QED  BY <1>2, <1>3, <1>4

LEMMA TheyPutTheirOwn ==
  ASSUME CInv, Answers, [Next]_vars
  PROVE  PutsItsOwn'
<1> SUFFICES ASSUME disturbed' = {}, NEW s \in Trainings
             PROVE  /\ step'[s] = "put" => document'[s].id = fitted'[s]
                    /\ step'[s] = "done" => catalog'[fitted'[s]] # Nothing
  BY DEF PutsItsOwn
<1>1. /\ step[s] = "done" => fitted[s] \in Contents
      /\ \A c \in Contents : catalog[c] # Nothing => catalog'[c] # Nothing
  BY CatalogGrows DEF Answers, FitsAreWhole, Contents
<1>2. ASSUME disturbed = {}, step'[s] = step[s], document'[s] = document[s], fitted'[s] = fitted[s]
      PROVE  /\ step'[s] = "put" => document'[s].id = fitted'[s]
             /\ step'[s] = "done" => catalog'[fitted'[s]] # Nothing
  BY <1>1, <1>2 DEF Answers, PutsItsOwn
<1>3. ASSUME NEW t \in Trainings, Fit(t)
      PROVE  /\ step'[s] = "put" => document'[s].id = fitted'[s]
             /\ step'[s] = "done" => catalog'[fitted'[s]] # Nothing
  <2>1. step'[t] = "fitted" /\ disturbed = {} /\ document' = document
    BY <1>3 DEF CInv, TypeOK, Fit, To, Publishers
  <2>2. s # t => step'[s] = step[s] /\ fitted'[s] = fitted[s]
    BY <1>3 DEF CInv, TypeOK, Fit, To, Publishers
  <2>3. CASE s = t
    BY <2>1, <2>3
  <2>4. QED  BY <1>2, <2>1, <2>2, <2>3
<1>4. ASSUME NEW t \in Trainings, Train(t), ~Fit(t), s # t
      PROVE  /\ step'[s] = "put" => document'[s].id = fitted'[s]
             /\ step'[s] = "done" => catalog'[fitted'[s]] # Nothing
  BY <1>2, <1>4, Solo DEF Alone
<1>5. ASSUME Train(s), ~Fit(s), step'[s] = "put"
      PROVE  document'[s].id = fitted'[s]
  <2>1. ReadDigest(s) /\ fitted' = fitted /\ disturbed = {}
    BY <1>5, Solo DEF Alone
  <2>2. trained[filename[s]] = fitted[s]
    BY <2>1 DEF CInv, ReadsItsOwn, ReadDigest
  <2>3. document'[s].id = trained[filename[s]]
    BY <2>1 DEF CInv, TypeOK, ReadDigest, Build, To, Publishers
  <2>4. QED  BY <2>1, <2>2, <2>3
<1>6. ASSUME Train(s), ~Fit(s), step'[s] = "done"
      PROVE  catalog'[fitted'[s]] # Nothing
  <2>1. PutAnswered(s) /\ fitted' = fitted /\ disturbed = {} /\ s \in Publishers
    BY <1>6, Solo DEF Alone, Publishers
  <2>2. document[s] \in Documents /\ document[s].id = fitted[s]
    BY <2>1 DEF CInv, DocumentsAreBuilt, Answers, PutsItsOwn, PutAnswered
  <2>3. document[s].id \in Contents /\ document[s] # Nothing
    BY <2>2, DistinctAssumption DEF Documents
  <2>4. catalog'[document[s].id] = document[s]
    BY <2>1, <2>3 DEF CInv, TypeOK, PutAnswered, Store, To
  <2>5. QED  BY <2>1, <2>2, <2>3, <2>4
<1>7. CASE ~\E t \in Trainings : Train(t)
  BY <1>2, <1>7, NotTraining
<1>8. QED  BY <1>3, <1>4, <1>5, <1>6, <1>7

LEMMA InitAnswers == Init => Answers
BY PublisherAssumption DEF Init, Answers, FitsAreWhole, StoredUnderId, PutsItsOwn, Publishers

LEMMA NextAnswers == CInv /\ Answers /\ [Next]_vars => Answers'
BY CatalogGrows, FitsStayWhole, TheyPutTheirOwn DEF Answers

-----------------------------------------------------------------------------
(* The theorems.                                                           *)

LEMMA NextCInv == CInv /\ [Next]_vars => CInv'
<1> SUFFICES ASSUME CInv, [Next]_vars PROVE CInv'
  OBVIOUS
<1>1. ASSUME NEW u \in Uploaders, Upload(u) PROVE CInv'
  <2>1. u \in Publishers
    BY DEF Publishers
  <2>2. QED  BY <1>1, <2>1, BuildDocumentStep, PutAnsweredStep, RetryStep, RefusedStep DEF Upload
<1>2. ASSUME NEW t \in Trainings, Train(t) PROVE CInv'
  <2>1. t \in Publishers
    BY DEF Publishers
  <2>2. QED  BY <1>2, <2>1, FitStep, FitFailsStep, DumpStep, DumpedStep, ReadContentStep, ReadDigestStep,
                PutAnsweredStep, PublishFailsStep DEF Train
<1>3. ASSUME NEW r \in Replicas, Start(r) \/ Crash(r) PROVE CInv'
  BY <1>3, DiscoverStep, DownloadStep, ReplaceStep, LoadStep, RestartStep, CrashStep DEF Start
<1>4. CASE UNCHANGED vars
  <2>1. TypeOK'
    BY <1>4 DEF CInv, TypeOK, vars
  <2>2. Volume'
    BY <1>4, ReplicasUntouched DEF CInv, Volume, vars, starting
  <2>3. DocumentsAreBuilt' /\ AttemptsLeft' /\ ReadsItsOwn' /\ AllGenuine'
    BY <1>4, OfAReplica DEF vars, publishing
  <2>4. QED  BY <2>1, <2>2, <2>3 DEF CInv, Volume
<1>5. QED  BY <1>1, <1>2, <1>3, <1>4, ArriveLateStep DEF Next

\* The invariant holds in every reachable state.
THEOREM Inductive == Spec => []CInv
BY InitCInv, NextCInv, PTL DEF Spec

\* Type correctness of the catalog, its publishers and the replicas.
THEOREM TypeCorrect == Spec => []TypeOK
<1>1. CInv => TypeOK
  BY DEF CInv
<1>2. QED  BY <1>1, Inductive, PTL

\* A replica runs what it has verified (ai_inference.py 423-483 and 283-293),
\* although it loads a file that other replicas replace.
THEOREM OnlyTheKnownRuns == Spec => []LoadedIsVerified
<1>1. CInv => LoadedIsVerified
  BY ConfigAssumption DEF CInv, RecordIsKnown, LoadedIsVerified, Known
<1>2. QED  BY <1>1, Inductive, PTL

\* A document has the content that its id says unless two trainings used one
\* file at the same time (ai_training.py 284-291).
THEOREM IdsAreChecksums == Spec => []CorruptNeedsACollision
<1>1. CInv => CorruptNeedsACollision
  BY DEF CInv, AllGenuine, Genuine, CorruptNeedsACollision
<1>2. QED  BY <1>1, Inductive, PTL
\* A training answered with 201 left its model in the catalog under the id
\* that it answered, with its own bytes, and ai-inference loads a model of
\* these classes (ai_training.py 153-159 and 318-333, ai_inference.py 189-213).
THEOREM AnswersAreTrue == Spec => []AnsweredIsLoadable
<1>1. Spec => []Answers
  BY InitAnswers, NextAnswers, Inductive, PTL DEF Spec
<1>2. CInv /\ Answers => AnsweredIsLoadable
  <2> SUFFICES ASSUME CInv, Answers, NEW t \in Trainings, step[t] = "done"
               PROVE  /\ disturbed = {} => /\ fitted[t] \in Contents
                                            /\ catalog[fitted[t]] # Nothing
                                            /\ catalog[fitted[t]].content = fitted[t]
                                            /\ Loads(fitted[t], Classes)
                      /\ BaseIsThere(t)
    BY DEF AnsweredIsLoadable
  <2>1. /\ fitted[t] \in Artifacts /\ fitted[t] \in Contents
        /\ ClassesOf[fitted[t]] = Classes /\ BaseIsThere(t)
    BY DEF Answers, FitsAreWhole, Contents
  <2>2. Loads(fitted[t], Classes)
    BY <2>1, PublisherAssumption DEF Loads
  <2>3. ASSUME disturbed = {}
        PROVE  catalog[fitted[t]] # Nothing /\ catalog[fitted[t]].content = fitted[t]
    <3>1. catalog[fitted[t]] # Nothing
      BY <2>3 DEF Answers, PutsItsOwn
    <3>2. catalog[fitted[t]].id = fitted[t]
      BY <2>1, <3>1 DEF Answers, StoredUnderId
    <3>3. catalog[fitted[t]] \in InCatalog
      BY <2>1, <3>1 DEF InCatalog
    <3>4. Genuine(catalog[fitted[t]])
      BY <2>3, <3>3 DEF CInv, AllGenuine
    <3>5. QED  BY <3>1, <3>2, <3>4 DEF Genuine
  <2>4. QED  BY <2>1, <2>2, <2>3
<1>3. QED  BY <1>1, <1>2, Inductive, PTL
=============================================================================
