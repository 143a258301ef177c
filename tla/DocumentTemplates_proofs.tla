----------------------- MODULE DocumentTemplates_proofs -----------------------
(***************************************************************************)
(* What publishing and issuing keep for any number of versions, marks and  *)
(* transactions.  A transaction that has written a publication holds the   *)
(* versions it supersedes until it commits (WritersHold); what is known of *)
(* a published version's fields is what the publication compared them with *)
(* (PublishedIsSound), unless they were rewritten past it.                 *)
(***************************************************************************)
EXTENDS DocumentTemplates, TLAPS

OutOfDraft == {"published", "superseded"}

(* What the publication asks of the fields of version v. *)
Sound(v, f) == Undeclared(BodyOf[v], f) = {} 
                   /\ Misshapen(BodyOf[v], Lists \cap Catalogue(KindOf[v]), f) = {}

WritersHold ==
    \A s \in Sessions, v \in Templates : session[s].step = "written" /\ session[s].of = v =>
        /\ template[v] = "draft"
        /\ session[s].removes = PublishedOf(v)
        /\ OnlyPublished(s, v)

SessionsKnow ==
    \A s \in Sessions :
        /\ session[s].step # "idle" =>
               session[s].of \in Templates /\ template[session[s].of] # None
        /\ session[s].step \in {"checked", "written"} =>
               Sound(session[s].of, session[s].fields)
        /\ session[s].step = "setting" => session[s].seen # "published"
        /\ session[s].step = "rendering" => template[session[s].of] \in OutOfDraft

PublishedIsSound ==
    \A v \in Templates \ rewritten : template[v] \in OutOfDraft => Sound(v, fields[v])

DocumentsTell ==
    \A d \in documents :
        /\ d.missing = Missing(BodyOf[d.of], d.fields, d.present)
        /\ d.present \subseteq Catalogue(KindOf[d.of])
        /\ d.of \notin rewritten => template[d.of] \in OutOfDraft /\ d.fields = fields[d.of]

IInv ==
    /\ TypeOK
    /\ WritersHold
    /\ SessionsKnow
    /\ PublishedIsSound
    /\ DocumentsTell

------------------------------------------------------------------------------
LEMMA NoFieldsAreFields == NoFields \in Fields /\ DOMAIN NoFields = {}
<1>1. NoFields \in [{} -> [binding : Bindings \cup {None}, mandatory : BOOLEAN]]
  BY DEF NoFields
<1>2. QED
  BY <1>1 DEF Fields, NoFields

LEMMA FieldsFacts ==
    ASSUME NEW f \in Fields
    PROVE  /\ DOMAIN f \subseteq Marks
           /\ \A m \in DOMAIN f :
                 f[m] \in [binding : Bindings \cup {None}, mandatory : BOOLEAN]
BY DEF Fields

LEMMA FieldsMade ==
    ASSUME NEW M, M \subseteq Marks, NEW f, f = [m \in M |-> f[m]],
           \A m \in M : f[m] \in [binding : Bindings \cup {None}, mandatory : BOOLEAN]
    PROVE  f \in Fields /\ DOMAIN f = M
<1>1. f \in [M -> [binding : Bindings \cup {None}, mandatory : BOOLEAN]]
  OBVIOUS
<1>2. QED
  BY <1>1 DEF Fields

LEMMA InitInvariant == Init => IInv
<1> SUFFICES ASSUME Init PROVE IInv
  OBVIOUS
<1>1. Idle \in Transactions /\ Idle.step = "idle"
  BY NoFieldsAreFields DEF Idle, Transactions
<1>2. TypeOK
  BY <1>1, NoFieldsAreFields DEF Init, TypeOK
<1>3. \A v \in Templates : template[v] = None
  BY DEF Init
<1>4. WritersHold /\ SessionsKnow /\ DocumentsTell
  BY <1>1 DEF Init, WritersHold, SessionsKnow, DocumentsTell
<1>5. PublishedIsSound
  BY <1>3, TemplatesAssumption DEF PublishedIsSound, OutOfDraft
<1>6. QED
  BY <1>2, <1>4, <1>5 DEF IInv

(* A step of one transaction that commits nothing: what it may hold then. *)
LEMMA SessionStep ==
    ASSUME IInv, NEW s \in Sessions, NEW x \in Transactions,
           session' = [session EXCEPT ![s] = x],
           UNCHANGED <<template, fields, documents, rewritten>>,
           x.step # "idle" => x.of \in Templates /\ template[x.of] # None,
           x.step \in {"checked", "written"} => Sound(x.of, x.fields),
           x.step = "setting" => x.seen # "published",
           x.step = "rendering" => template[x.of] \in OutOfDraft,
           x.step = "written" =>
               /\ template[x.of] = "draft"
               /\ x.removes = PublishedOf(x.of)
               /\ OnlyPublished(s, x.of)
    PROVE  IInv'
<1>1. TypeOK'
  BY DEF IInv, TypeOK
<1>2. \A u \in Sessions : session'[u] = IF u = s THEN x ELSE session[u]
  BY DEF IInv, TypeOK
<1>3. \A v \in Templates : PublishedOf(v)' = PublishedOf(v)
  BY DEF PublishedOf
<1>4. WritersHold'
  <2> SUFFICES ASSUME NEW u \in Sessions, NEW v \in Templates,
                      session'[u].step = "written", session'[u].of = v
               PROVE  /\ template[v] = "draft"
                      /\ session'[u].removes = PublishedOf(v)
                      /\ \A o \in Sessions \ {u} : session'[o].step = "written" =>
                             CodeOf[session'[o].of] # CodeOf[v]
    BY <1>3 DEF WritersHold, OnlyPublished
  <2>1. CASE u = s
    BY <1>2, <2>1 DEF OnlyPublished
  <2>2. CASE u # s
    <3>1. session[u].step = "written" /\ session[u].of = v /\ session'[u] = session[u]
      BY <1>2, <2>2
    <3>2. template[v] = "draft" /\ session[u].removes = PublishedOf(v) /\ OnlyPublished(u, v)
      BY <3>1 DEF IInv, WritersHold
    <3>3. x.step = "written" => CodeOf[x.of] # CodeOf[v]
      BY <2>2, <3>1 DEF OnlyPublished
    <3>4. QED
      BY <1>2, <3>1, <3>2, <3>3 DEF OnlyPublished
  <2>3. QED
    BY <2>1, <2>2
<1>5. SessionsKnow'
  BY <1>2 DEF IInv, SessionsKnow
<1>6. (PublishedIsSound /\ DocumentsTell)'
  BY DEF IInv, PublishedIsSound, DocumentsTell
<1>7. QED
  BY <1>1, <1>4, <1>5, <1>6 DEF IInv

LEMMA CreateStep ==
    ASSUME IInv, NEW v \in Templates, UploadTemplate(v)
    PROVE  IInv'
<1>1. PICK f : f = ProposedFields(BodyOf[v])
  OBVIOUS
<1>2. /\ template[v] = None
      /\ template' = [template EXCEPT ![v] = "draft"]
      /\ fields' = [fields EXCEPT ![v] = f]
      /\ UNCHANGED <<session, documents, rewritten>>
  BY <1>1 DEF UploadTemplate, CreateTemplateVersion
<1>3. f \in Fields
  <2> DEFINE D == Undeclared(BodyOf[v], NoFields)
  <2>1. D \subseteq Marks
    BY TemplatesAssumption DEF MarksOf, Undeclared
  <2>2. f = [m \in D |-> f[m]]
    BY <1>1 DEF ProposedFields
  <2>3. \A m \in D : f[m] \in [binding : Bindings \cup {None}, mandatory : BOOLEAN]
    BY <1>1 DEF ProposedFields
  <2>4. QED
    BY <2>1, <2>2, <2>3, FieldsMade
<1>4. TypeOK'
  BY <1>2, <1>3 DEF IInv, TypeOK, Statuses
<1>5. \A w \in Templates :
        /\ template'[w] = IF w = v THEN "draft" ELSE template[w]
        /\ w # v => fields'[w] = fields[w]
  BY <1>2 DEF IInv, TypeOK
<1>6. \A w \in Templates : PublishedOf(w)' = PublishedOf(w)
  BY <1>2, <1>5, TemplatesAssumption DEF PublishedOf
<1>7. WritersHold'
  BY <1>2, <1>5, <1>6 DEF IInv, WritersHold, OnlyPublished
<1>8. SessionsKnow'
  BY <1>2, <1>5, TemplatesAssumption DEF IInv, SessionsKnow, OutOfDraft
<1>9. PublishedIsSound'
  BY <1>2, <1>5 DEF IInv, PublishedIsSound, OutOfDraft
<1>10. DocumentsTell'
  BY <1>2, <1>5, TemplatesAssumption DEF IInv, TypeOK, Rows, DocumentsTell, OutOfDraft
<1>11. QED
  BY <1>4, <1>7, <1>8, <1>9, <1>10 DEF IInv

LEMMA IdleStep ==
    ASSUME IInv, NEW s \in Sessions, session' = [session EXCEPT ![s] = Idle]
    PROVE  /\ session' \in [Sessions -> Transactions]
           /\ \A u \in Sessions : session'[u] = IF u = s THEN Idle ELSE session[u]
           /\ Idle.step = "idle"
BY NoFieldsAreFields DEF IInv, TypeOK, Idle, Transactions

(* A transaction that ends without publishing leaves the others their hold. *)
LEMMA WritersStand ==
    ASSUME IInv, NEW s \in Sessions, session' = [session EXCEPT ![s] = Idle],
           UNCHANGED template
    PROVE  WritersHold'
<1> SUFFICES ASSUME NEW u \in Sessions, NEW v \in Templates,
                    session'[u].step = "written", session'[u].of = v
             PROVE  /\ template[v] = "draft"
                    /\ session'[u].removes = PublishedOf(v)
                    /\ \A o \in Sessions \ {u} : session'[o].step = "written" =>
                           CodeOf[session'[o].of] # CodeOf[v]
  BY DEF WritersHold, OnlyPublished, PublishedOf
<1>1. \A o \in Sessions : session'[o].step = "written" =>
          session'[o] = session[o] /\ session[o].step = "written"
  BY IdleStep
<1>2. template[v] = "draft" /\ session[u].removes = PublishedOf(v) /\ OnlyPublished(u, v)
  BY <1>1 DEF IInv, WritersHold
<1>3. QED
  BY <1>1, <1>2 DEF OnlyPublished

LEMMA SetStep ==
    ASSUME IInv, NEW s \in Sessions, CommitSet(s)
    PROVE  IInv'
<1>1. PICK t : t = session[s]
  OBVIOUS
<1>2. /\ t \in Transactions /\ t.step = "setting" /\ t.of \in Templates
      /\ t.fields \in Fields /\ t.seen # "published" /\ template[t.of] # None
  BY <1>1 DEF IInv, TypeOK, SessionsKnow, CommitSet, Transactions
<1>3. PICK M : M = (DOMAIN fields[t.of] \ t.removes) \cup DOMAIN t.fields
  OBVIOUS
<1>4. PICK f : f = [m \in M |->
                      IF m \in DOMAIN t.fields THEN t.fields[m] ELSE fields[t.of][m]]
  OBVIOUS
<1>5. /\ fields' = [fields EXCEPT ![t.of] = f]
      /\ rewritten' = IF template[t.of] = "superseded" \/ template[t.of] # t.seen
                      THEN rewritten \cup {t.of} ELSE rewritten
      /\ session' = [session EXCEPT ![s] = Idle]
      /\ UNCHANGED <<template, documents>>
  BY <1>1, <1>3, <1>4 DEF CommitSet
<1>6. f \in Fields
  <2>1. fields[t.of] \in Fields
    BY <1>2 DEF IInv, TypeOK
  <2>2. M \subseteq Marks
    BY <1>2, <1>3, <2>1, FieldsFacts
  <2>3. \A m \in M : f[m] \in [binding : Bindings \cup {None}, mandatory : BOOLEAN]
    BY <1>2, <1>3, <1>4, <2>1, FieldsFacts
  <2>4. QED
    BY <1>4, <2>2, <2>3, FieldsMade
<1>7. TypeOK'
  BY <1>2, <1>5, <1>6, IdleStep DEF IInv, TypeOK
<1>8. \A u \in Sessions : session'[u] = IF u = s THEN Idle ELSE session[u]
  BY <1>5, IdleStep
<1>9. WritersHold'
  BY <1>5, WritersStand
<1>10. SessionsKnow'
  BY <1>5, <1>8, IdleStep DEF IInv, SessionsKnow
<1>11. \A w \in Templates \ rewritten' :
         w \notin rewritten /\ (template[w] \in OutOfDraft => fields'[w] = fields[w])
  BY <1>2, <1>5 DEF IInv, TypeOK, OutOfDraft
<1>12. PublishedIsSound'
  BY <1>5, <1>11 DEF IInv, PublishedIsSound
<1>13. DocumentsTell'
  BY <1>5, <1>11 DEF IInv, TypeOK, Rows, DocumentsTell
<1>14. QED
  BY <1>7, <1>9, <1>10, <1>12, <1>13 DEF IInv

(* What a publication leaves. *)
LEMMA PublicationFacts ==
    ASSUME IInv, NEW s \in Sessions, CommitPublication(s)
    PROVE  LET e == session[s].of
           IN  /\ e \in Templates /\ template[e] = "draft"
               /\ session[s].removes = PublishedOf(e)
               /\ \A v \in Templates :
                      template'[v] = IF v = e THEN "published"
                                     ELSE IF v \in PublishedOf(e) THEN "superseded"
                                     ELSE template[v]
BY DEF IInv, WritersHold, SessionsKnow, CommitPublication

LEMMA PublicationStep ==
    ASSUME IInv, NEW s \in Sessions, CommitPublication(s)
    PROVE  IInv'
<1>1. PICK t, e : t = session[s] /\ e = t.of
  OBVIOUS
<1>2. /\ e \in Templates /\ template[e] = "draft" /\ Sound(e, t.fields)
      /\ t.step = "written"
      /\ \A v \in Templates :
            template'[v] = IF v = e THEN "published"
                           ELSE IF v \in PublishedOf(e) THEN "superseded" ELSE template[v]
  BY <1>1, PublicationFacts DEF IInv, SessionsKnow, CommitPublication
<1>3. /\ template' \in [Templates -> Statuses \cup {None}]
      /\ rewritten' = IF fields[e] # t.fields THEN rewritten \cup {e} ELSE rewritten
      /\ session' = [session EXCEPT ![s] = Idle]
      /\ UNCHANGED <<fields, documents>>
  BY <1>1 DEF CommitPublication, IInv, TypeOK, Statuses
<1>4. TypeOK'
  BY <1>2, <1>3, IdleStep DEF IInv, TypeOK
<1>5. \A u \in Sessions : session'[u] = IF u = s THEN Idle ELSE session[u]
  BY <1>3, IdleStep
<1>6. \A v \in Templates :
        /\ template[v] # None => template'[v] # None
        /\ template[v] \in OutOfDraft => template'[v] \in OutOfDraft
        /\ CodeOf[v] # CodeOf[e] => template'[v] = template[v]
  BY <1>2, TemplatesAssumption DEF OutOfDraft, PublishedOf
<1>7. ASSUME NEW u \in Sessions, session'[u].step = "written"
      PROVE  /\ u # s /\ session'[u] = session[u]
             /\ session[u].of \in Templates /\ CodeOf[session[u].of] # CodeOf[e]
  <2>1. u # s /\ session'[u] = session[u] /\ session[u].step = "written"
    BY <1>3, <1>5, <1>7, IdleStep
  <2>2. session[u].of \in Templates
    BY <2>1 DEF IInv, SessionsKnow
  <2>3. OnlyPublished(s, e)
    BY <1>1, <1>2 DEF IInv, WritersHold
  <2>4. QED
    BY <2>1, <2>2, <2>3 DEF OnlyPublished
<1>8. \A w \in Templates : CodeOf[w] # CodeOf[e] => PublishedOf(w)' = PublishedOf(w)
  BY <1>6 DEF PublishedOf
<1>9. WritersHold'
  <2> SUFFICES ASSUME NEW u \in Sessions, NEW v \in Templates,
                      session'[u].step = "written", session'[u].of = v
               PROVE  /\ template'[v] = "draft"
                      /\ session'[u].removes = PublishedOf(v)'
                      /\ \A o \in Sessions \ {u} : session'[o].step = "written" =>
                             CodeOf[session'[o].of] # CodeOf[v]
    BY DEF WritersHold, OnlyPublished
  <2>1. /\ u # s /\ session'[u] = session[u]
        /\ session[u].of = v /\ CodeOf[v] # CodeOf[e] /\ session[u].step = "written"
    BY <1>7
  <2>2. template[v] = "draft" /\ session[u].removes = PublishedOf(v) /\ OnlyPublished(u, v)
    BY <2>1 DEF IInv, WritersHold
  <2>3. template'[v] = "draft"
    BY <1>6, <2>1, <2>2
  <2>4. session'[u].removes = PublishedOf(v)'
    BY <1>8, <2>1, <2>2
  <2>5. \A o \in Sessions \ {u} : session'[o].step = "written" =>
            CodeOf[session'[o].of] # CodeOf[v]
    BY <1>7, <2>1, <2>2 DEF OnlyPublished
  <2>6. QED
    BY <2>3, <2>4, <2>5
<1>10. SessionsKnow'
  BY <1>3, <1>5, <1>6, IdleStep DEF IInv, SessionsKnow
<1>11. PublishedIsSound'
  <2> SUFFICES ASSUME NEW v \in Templates \ rewritten', template'[v] \in OutOfDraft
               PROVE  Sound(v, fields[v])
    BY <1>3 DEF PublishedIsSound
  <2>1. v \notin rewritten /\ (v = e => fields[e] = t.fields)
    BY <1>3
  <2>2. CASE v = e
    BY <1>2, <2>1, <2>2
  <2>3. CASE v # e
    BY <1>2, <2>1, <2>3 DEF IInv, PublishedIsSound, OutOfDraft, PublishedOf
  <2>4. QED
    BY <2>2, <2>3
<1>12. DocumentsTell'
  BY <1>3, <1>6 DEF IInv, TypeOK, Rows, DocumentsTell
<1>13. QED
  BY <1>4, <1>9, <1>10, <1>11, <1>12 DEF IInv

LEMMA IssueStep ==
    ASSUME IInv, NEW s \in Sessions, NEW subject \in Subjects, Issue(s, subject)
    PROVE  IInv'
<1>1. PICK v : v = session[s].of
  OBVIOUS
<1>2. v \in Templates /\ template[v] \in OutOfDraft /\ fields[v] \in Fields
  BY <1>1 DEF Issue, IInv, TypeOK, SessionsKnow
<1>3. PICK present : present = ResolveBindings(KindOf[v], subject)
  OBVIOUS
<1>4. present \subseteq Catalogue(KindOf[v]) /\ Catalogue(KindOf[v]) \subseteq Paths
  BY <1>2, <1>3, TemplatesAssumption
     DEF ResolveBindings, QuoteBindings, OrderBindings, ContractBindings, ScalarsOf, ListsOf,
         Catalogue, Paths, Kinds
<1>5. PICK d : d = [of |-> v, fields |-> fields[v], present |-> present,
                    missing |-> Missing(BodyOf[v], fields[v], present)]
  OBVIOUS
<1>6. /\ documents' = documents \cup {d}
      /\ session' = [session EXCEPT ![s] = Idle]
      /\ UNCHANGED <<template, fields, rewritten>>
  BY <1>1, <1>3, <1>5 DEF Issue
<1>7. Missing(BodyOf[v], fields[v], present) \subseteq Marks
  BY <1>2, FieldsFacts DEF Missing
<1>8. d \in Rows
  BY <1>2, <1>5, <1>7, <1>4 DEF Rows
<1>9. TypeOK'
  BY <1>6, <1>8, IdleStep DEF IInv, TypeOK
<1>10. \A u \in Sessions : session'[u] = IF u = s THEN Idle ELSE session[u]
  BY <1>6, IdleStep
<1>11. WritersHold'
  BY <1>6, WritersStand
<1>12. SessionsKnow'
  BY <1>6, <1>10, IdleStep DEF IInv, SessionsKnow
<1>13. PublishedIsSound'
  BY <1>6 DEF IInv, PublishedIsSound
<1>14. DocumentsTell'
  BY <1>2, <1>5, <1>6, <1>4 DEF IInv, DocumentsTell
<1>15. QED
  BY <1>9, <1>11, <1>12, <1>13, <1>14 DEF IInv

LEMMA HoldingStep ==
    ASSUME IInv, NEW s \in Sessions, NEW v \in Templates, NEW f \in Fields,
           NEW step \in {"setting", "checked", "rendering"}, NEW removes \in SUBSET Marks,
           template[v] # None,
           step = "checked" => Sound(v, f),
           step = "setting" => template[v] # "published",
           step = "rendering" => template[v] = "published",
           session' = [session EXCEPT ![s] = Holding(step, v, f, removes)],
           UNCHANGED <<template, fields, documents, rewritten>>
    PROVE  IInv'
<1>1. PICK x : x = Holding(step, v, f, removes)
  OBVIOUS
<1>2. /\ x.step = step /\ x.of = v /\ x.seen = template[v] /\ x.fields = f
      /\ x.removes = removes
  BY <1>1 DEF Holding
<1>3. x \in Transactions
  BY <1>1 DEF Holding, Transactions, IInv, TypeOK
<1>4. session' = [session EXCEPT ![s] = x]
  BY <1>1
<1>5. QED
  BY <1>2, <1>3, <1>4, SessionStep DEF OutOfDraft

LEMMA WriteStep ==
    ASSUME IInv, NEW s \in Sessions, WritePublication(s)
    PROVE  IInv'
<1>1. PICK t, v : t = session[s] /\ v = t.of
  OBVIOUS
<1>2. PICK x : x = [t EXCEPT !.step = "written", !.removes = PublishedOf(v)]
  OBVIOUS
<1>3. /\ t \in Transactions /\ t.step = "checked" /\ v \in Templates
      /\ Sound(v, t.fields) /\ template[v] = "draft" /\ OnlyPublished(s, v)
      /\ session' = [session EXCEPT ![s] = x]
      /\ UNCHANGED <<template, fields, documents, rewritten>>
  BY <1>1, <1>2 DEF WritePublication, MayBePublished, IInv, TypeOK, SessionsKnow
<1>4. PublishedOf(v) \subseteq Templates
  BY DEF PublishedOf
<1>5. /\ x \in Transactions /\ x.step = "written" /\ x.of = v /\ x.fields = t.fields
      /\ x.removes = PublishedOf(v)
  BY <1>1, <1>2, <1>3, <1>4 DEF Transactions
<1>6. template[v] # None
  BY <1>3, TemplatesAssumption
<1>7. QED
  BY <1>3, <1>5, <1>6, SessionStep

LEMMA NextInvariant == IInv /\ [Next]_vars => IInv'
<1> SUFFICES ASSUME IInv, [Next]_vars PROVE IInv'
  OBVIOUS
<1>1. ASSUME NEW v \in Templates, UploadTemplate(v) PROVE IInv'
  BY <1>1, CreateStep
<1>2. ASSUME NEW s \in Sessions, NEW v \in Templates, NEW config \in Configurations,
             BeginSet(s, v, config)
      PROVE  IInv'
  <2>1. config \in Fields /\ DOMAIN fields[v] \in SUBSET Marks
    BY FieldsFacts, TemplatesAssumption DEF IInv, TypeOK
  <2>2. QED
    BY <1>2, <2>1, HoldingStep DEF BeginSet, FieldsMayChange
<1>3. ASSUME NEW s \in Sessions, NEW v \in Templates, BeginPublish(s, v) PROVE IInv'
  <2>1. fields[v] \in Fields
    BY DEF IInv, TypeOK
  <2>2. QED
    BY <1>3, <2>1, HoldingStep DEF BeginPublish, Sound
<1>4. ASSUME NEW s \in Sessions, NEW v \in Templates, NEW asked \in Templates,
             BeginRender(s, asked, v)
      PROVE  IInv'
  BY <1>4, NoFieldsAreFields, HoldingStep, TemplatesAssumption DEF BeginRender, PublishedOf
<1>5. ASSUME NEW s \in Sessions, CommitSet(s) \/ WritePublication(s) \/ CommitPublication(s)
      PROVE  IInv'
  BY <1>5, SetStep, WriteStep, PublicationStep
<1>6. ASSUME NEW s \in Sessions, NEW subject \in Subjects, Issue(s, subject) PROVE IInv'
  BY <1>6, IssueStep
<1>7. ASSUME NEW s \in Sessions, Rollback(s) PROVE IInv'
  <2>1. Idle \in Transactions /\ Idle.step = "idle"
    BY NoFieldsAreFields DEF Idle, Transactions
  <2>2. QED
    BY <1>7, <2>1, SessionStep DEF Rollback
<1>8. CASE UNCHANGED vars
  BY <1>8 DEF vars, IInv, TypeOK, WritersHold, OnlyPublished, PublishedOf, SessionsKnow,
              PublishedIsSound, DocumentsTell
<1>9. QED
  BY <1>1, <1>2, <1>3, <1>4, <1>5, <1>6, <1>7, <1>8 DEF Next

LEMMA Invariant == Spec => []IInv
<1>1. Init => IInv
  BY InitInvariant
<1>2. IInv /\ [Next]_vars => IInv'
  BY NextInvariant
<1>3. QED
  BY <1>1, <1>2, PTL DEF Spec

------------------------------------------------------------------------------
(* The rows and the open transactions stay well formed. *)
THEOREM TypeCorrect == Spec => []TypeOK
<1>1. IInv => TypeOK
  BY DEF IInv
<1>2. QED
  BY <1>1, Invariant, PTL

(* No document has a gap that nobody decided on, for any bodies, bindings  *)
(* and data: what the publication compared the fields with and what the    *)
(* rendering blocks leave no third case.                                   *)
THEOREM DocumentsAreComplete == Spec => []NoDocumentHasGaps
<1>1. ASSUME IInv PROVE NoDocumentHasGaps
  <2> SUFFICES ASSUME NEW d \in documents, d.missing = {}, d.of \notin rewritten
               PROVE  LET body == BodyOf[d.of]
                          Decided(m) == ~ d.fields[m].mandatory
                                            /\ d.fields[m].binding \notin d.present
                      IN  /\ \A m \in body.blocks :
                                PrintedBlock(m, d.fields, d.present) = "data" \/ Decided(m)
                          /\ \A m \in body.plain \ body.blocks :
                                \/ PrintedPlain(m, d.fields, d.present) = "data"
                                \/ m \in DOMAIN d.fields /\ Decided(m)
    BY DEF NoDocumentHasGaps
  <2>1. /\ d.of \in Templates /\ d.present \subseteq Catalogue(KindOf[d.of])
        /\ Missing(BodyOf[d.of], d.fields, d.present) = {}
        /\ Sound(d.of, d.fields)
    BY <1>1 DEF IInv, TypeOK, Rows, DocumentsTell, PublishedIsSound
  <2>2. \A m \in BodyOf[d.of].plain \cup BodyOf[d.of].blocks : m \in DOMAIN d.fields
    BY <2>1 DEF Sound, Undeclared, MarksOf
  <2>3. \A m \in DOMAIN d.fields :
          d.fields[m].binding \in Lists \cap Catalogue(KindOf[d.of])
              <=> m \in BodyOf[d.of].blocks
    BY <2>1 DEF Sound, Misshapen
  <2>4. \A m \in DOMAIN d.fields :
          d.fields[m].binding \notin d.present => ~ d.fields[m].mandatory
    BY <2>1 DEF Missing
  <2>5. QED
    BY <2>1, <2>2, <2>3, <2>4 DEF PrintedBlock, PrintedPlain, Paths, Catalogue
<1>2. QED
  BY <1>1, Invariant, PTL

(* A document keeps showing the format it was issued with. *)
THEOREM DocumentsKeepTheirFormat == Spec => []DocumentsMatchTheirVersion
<1>1. IInv => DocumentsMatchTheirVersion
  BY DEF IInv, DocumentsTell, DocumentsMatchTheirVersion, OutOfDraft
<1>2. QED
  BY <1>1, Invariant, PTL

(* The versions of a format are editions: one in force at a time, and what *)
(* was replaced never comes back.                                          *)
LEMMA EditionStep == IInv /\ [Next]_vars => [Abstract!Next]_<<Published, Superseded>>
<1> SUFFICES ASSUME IInv, [Next]_vars
             PROVE  Abstract!Next \/ UNCHANGED <<Published, Superseded>>
  OBVIOUS
<1>1. CASE template' = template
  BY <1>1 DEF Published, Superseded
<1>2. ASSUME NEW v \in Templates, UploadTemplate(v)
      PROVE  UNCHANGED <<Published, Superseded>>
  BY <1>2, TemplatesAssumption DEF UploadTemplate, CreateTemplateVersion, IInv, TypeOK, Published, Superseded
<1>3. ASSUME NEW s \in Sessions, CommitPublication(s) PROVE Abstract!Next
  <2>1. PICK e : e = session[s].of
    OBVIOUS
  <2>2. /\ e \in Templates /\ template[e] = "draft"
        /\ \A v \in Templates :
              template'[v] = IF v = e THEN "published"
                             ELSE IF v \in PublishedOf(e) THEN "superseded" ELSE template[v]
    BY <1>3, <2>1, PublicationFacts
  <2>3. PublishedOf(e) = {w \in Published : CodeOf[w] = CodeOf[e]}
    BY DEF PublishedOf, Published
  <2>4. e \notin Published \cup Superseded
    BY <2>2 DEF Published, Superseded
  <2>5. Published' = (Published \ PublishedOf(e)) \cup {e}
    BY <2>2 DEF Published, PublishedOf
  <2>6. Superseded' = Superseded \cup PublishedOf(e)
    BY <2>2 DEF Superseded, PublishedOf
  <2>7. Abstract!Publish(e)
    BY <2>3, <2>4, <2>5, <2>6 DEF Abstract!Publish
  <2>8. QED
    BY <2>2, <2>7 DEF Abstract!Next
<1>4. QED
  BY <1>1, <1>2, <1>3 DEF Next, vars, BeginSet, BeginPublish, BeginRender, CommitSet,
                          WritePublication, Issue, Rollback

THEOREM TemplatesAreEditions == Spec => ImplementsEditions
<1>1. Init => Abstract!Init
  BY TemplatesAssumption DEF Init, Abstract!Init, Published, Superseded
<1>2. IInv /\ [Next]_vars => [Abstract!Next]_Abstract!vars
  BY EditionStep DEF Abstract!vars
<1>3. QED
  BY <1>1, <1>2, Invariant, PTL DEF Spec, ImplementsEditions, Abstract!Spec
==============================================================================
