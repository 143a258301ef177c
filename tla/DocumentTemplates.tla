------------------------- MODULE DocumentTemplates --------------------------
(***************************************************************************)
(* The formats of a tenant and the documents issued with them: templates.ts*)
(* of the platform, document-render.ts of the domain and the triggers of   *)
(* migration 0019.                                                         *)
(*                                                                         *)
(* A command is a transaction under READ COMMITTED: each statement sees    *)
(* what had been committed when it began, and other transactions commit    *)
(* between its statements.  Inserting a field takes a lock on its template *)
(* that the update which publishes it does not wait for, so a publication  *)
(* and a change of fields can pass each other.  A statement that waited    *)
(* for a lock and then finds nothing to do ends like a rollback.           *)
(*                                                                         *)
(* A body is the marks it uses as plain text and as blocks of rows, a      *)
(* binding is a path of the catalogue, the data of a subject is the set of *)
(* paths that have a value.                                                *)
(***************************************************************************)
EXTENDS FiniteSets, Naturals

CONSTANTS
    Templates,      \* identifiers of template versions
    CodeOf,         \* the code each of them is a version of
    KindOf,         \* its kind of document
    BodyOf,         \* its body: the marks it uses, `plain` and as `blocks`
    Marks,          \* the marks that can be declared
    Scalars,        \* the paths of the catalogue with one value
    Lists,          \* the paths of the catalogue with rows
    Loose,          \* texts that the trigger takes for a path with rows, as "path[]"
    Unknown,        \* texts that are no path at all
    Configurations, \* the sets of fields a form can send
    Sessions,       \* transactions that can be open at once
    MaxDocuments,   \* bound on the rows of document_render
    None

Paths == Scalars \cup Lists

Bindings == Paths \cup Loose \cup Unknown

Fields == UNION {[M -> [binding : Bindings \cup {None}, mandatory : BOOLEAN]] : M \in SUBSET Marks}

(* RESOLVABLE_KINDS: what each is about.  An order has no rows. *)
Kinds == {"QUOTE", "TRANSPORT_ORDER", "CONTRACT"}

(* document_binding: the paths offered for a kind. *)
Catalogue(kind) == IF kind = "TRANSPORT_ORDER" THEN Scalars ELSE Paths

ASSUME TemplatesAssumption ==
    /\ \A v \in Templates : KindOf[v] \in Kinds
    /\ \A v \in Templates : BodyOf[v].plain \subseteq Marks /\ BodyOf[v].blocks \subseteq Marks
    /\ Scalars \cap Lists = {}
    /\ Paths \cap (Loose \cup Unknown) = {}
    /\ Configurations \subseteq Fields
    /\ None \notin Bindings \cup Templates \cup {"draft", "published", "superseded"}
    /\ MaxDocuments \in Nat

VARIABLES
    template,       \* the status of each version
    fields,         \* the committed fields of each version
    session,        \* what each open transaction has read and written
    documents,      \* the rows of document_render
    rewritten       \* versions whose fields were written past the checks of a publication

vars == <<template, fields, session, documents, rewritten>>

Statuses == {"draft", "published", "superseded"}

NoFields == [m \in {} |-> None]

Idle ==
    [step |-> "idle", of |-> None, seen |-> None, fields |-> NoFields, removes |-> {}]

Transactions ==
    [step : {"idle", "setting", "checked", "written", "rendering"},
     of : Templates \cup {None}, seen : Statuses \cup {None}, fields : Fields,
     removes : SUBSET (Templates \cup Marks)]

Rows == [of : Templates, fields : Fields, present : SUBSET Paths, missing : SUBSET Marks]

TypeOK ==
    /\ template \in [Templates -> Statuses \cup {None}]
    /\ fields \in [Templates -> Fields]
    /\ session \in [Sessions -> Transactions]
    /\ documents \subseteq Rows
    /\ rewritten \subseteq Templates

Init ==
    /\ template = [v \in Templates |-> None]
    /\ fields = [v \in Templates |-> NoFields]
    /\ session = [s \in Sessions |-> Idle]
    /\ documents = {}
    /\ rewritten = {}
-----------------------------------------------------------------------------
MarksOf(body) == body.plain \cup body.blocks

(* undeclaredPlaceholders. *)
Undeclared(body, f) == MarksOf(body) \ DOMAIN f

(* bindingShapeErrors: rows used as plain text, or one value as a block. *)
Misshapen(body, repeating, f) ==
    {m \in DOMAIN f : (f[m].binding \in repeating) # (m \in body.blocks)}

(* validate_template_publication: the fields that say no path, and those   *)
(* whose path, without what follows "[]", is not in the catalogue.         *)
Unbound(f) == {m \in DOMAIN f : f[m].binding = None}

Unresolvable(kind, f) ==
    {m \in DOMAIN f : \/ f[m].binding \in Unknown \cup (Paths \ Catalogue(kind))
                      \/ f[m].binding \in Loose /\ Lists \cap Catalogue(kind) = {}}

(* What the columns and rows of a subject can be. *)
Subjects == [Paths -> {"null", "blank", "zero", "value", "no rows", "rows"}]

(* text, money, decimal and datetime: a column without a value or with a   *)
(* blank one is an absence, a zero is not.                                 *)
ScalarsOf(subject) == {p \in Scalars : subject[p] \notin {"null", "blank"}}

(* rows: a table without rows is an absence. *)
ListsOf(subject) == {p \in Lists : subject[p] = "rows"}

(* resolveQuoteBindings, resolveOrderBindings and resolveContractBindings: *)
(* the paths with a value.                                                 *)
QuoteBindings(subject) == ScalarsOf(subject) \cup ListsOf(subject)

OrderBindings(subject) == ScalarsOf(subject)

ContractBindings(subject) == ScalarsOf(subject) \cup ListsOf(subject)

ResolveBindings(kind, subject) ==
    CASE kind = "QUOTE" -> QuoteBindings(subject)
      [] kind = "TRANSPORT_ORDER" -> OrderBindings(subject)
      [] kind = "CONTRACT" -> ContractBindings(subject)

(* renderDocument, the fields that block the document.  A text that is no  *)
(* path resolves to nothing, like a path without data.                     *)
Missing(body, f, present) ==
    {m \in DOMAIN f :
        IF f[m].binding \in present THEN f[m].binding \in Lists /\ m \notin body.blocks
                                    ELSE f[m].mandatory}

(* renderDocument, what is printed where the body uses mark m as a block   *)
(* or as plain text: its data, the text for its absence, or the mark.      *)
PrintedBlock(m, f, present) ==
    IF m \in DOMAIN f /\ f[m].binding \in present \cap Lists THEN "data" ELSE "absent"

PrintedPlain(m, f, present) ==
    IF m \notin DOMAIN f THEN "mark"
    ELSE IF f[m].binding \in present \cap Scalars THEN "data" ELSE "absent"
-----------------------------------------------------------------------------
(* createTemplateVersion: the next version of a code, as a draft. *)
CreateTemplateVersion(v) ==
    /\ template[v] = None
    /\ template' = [template EXCEPT ![v] = "draft"]

(* proposeFieldsFromBody: every mark of the body, bound to nothing. *)
ProposedFields(body) ==
    [m \in Undeclared(body, NoFields) |-> [binding |-> None, mandatory |-> TRUE]]

(* uploadTemplateAction: a version and its proposed fields. *)
UploadTemplate(v) ==
    /\ CreateTemplateVersion(v)
    /\ fields' = [fields EXCEPT ![v] = ProposedFields(BodyOf[v])]
    /\ UNCHANGED <<session, documents, rewritten>>

(* A transaction that has read version v. *)
Holding(step, v, f, removes) ==
    [step |-> step, of |-> v, seen |-> template[v], fields |-> f, removes |-> removes]

(* A mistake in the next definition: the trigger is missing. *)
FieldsMayChangeAlways(v) == TRUE

(* forbid_published_field_rewrite *)
FieldsMayChange(v) == template[v] # "published"

(* The field rows that a transaction deletes or inserts and has not        *)
(* committed: another that touches them waits.                             *)
FieldsTouched(s, v) ==
    UNION {session[other].removes \cup DOMAIN session[other].fields :
               other \in {o \in Sessions \ {s} : session[o].step = "setting" /\ session[o].of = v}}

(* setTemplateFields: the rows it finds are deleted and the new ones       *)
(* inserted, each under the trigger.                                       *)
BeginSet(s, v, config) ==
    /\ session[s].step = "idle"
    /\ template[v] # None
    /\ FieldsMayChange(v)
    /\ FieldsTouched(s, v) \cap (DOMAIN fields[v] \cup DOMAIN config) = {}
    /\ session' = [session EXCEPT ![s] = Holding("setting", v, config, DOMAIN fields[v])]
    /\ UNCHANGED <<template, fields, documents, rewritten>>

CommitSet(s) ==
    LET t == session[s]
        kept == DOMAIN fields[t.of] \ t.removes
    IN  /\ t.step = "setting"
        /\ fields' = [fields EXCEPT ![t.of] =
               [m \in kept \cup DOMAIN t.fields |->
                   IF m \in DOMAIN t.fields THEN t.fields[m] ELSE fields[t.of][m]]]
        /\ rewritten' = IF template[t.of] = "superseded" \/ template[t.of] # t.seen
                        THEN rewritten \cup {t.of} ELSE rewritten
        /\ session' = [session EXCEPT ![s] = Idle]
        /\ UNCHANGED <<template, documents>>

(* A mistake in the next definition: the shapes are not compared. *)
BeginPublishShapeless(s, v) ==
    /\ session[s].step = "idle"
    /\ template[v] # None
    /\ Undeclared(BodyOf[v], fields[v]) = {}
    /\ session' = [session EXCEPT ![s] = Holding("checked", v, fields[v], {})]
    /\ UNCHANGED <<template, fields, documents, rewritten>>

(* publishTemplate, up to its first update: the template and its fields    *)
(* are read and compared with the body.                                    *)
BeginPublish(s, v) ==
    /\ session[s].step = "idle"
    /\ template[v] # None
    /\ Undeclared(BodyOf[v], fields[v]) = {}
    /\ Misshapen(BodyOf[v], Lists \cap Catalogue(KindOf[v]), fields[v]) = {}
    /\ session' = [session EXCEPT ![s] = Holding("checked", v, fields[v], {})]
    /\ UNCHANGED <<template, fields, documents, rewritten>>

(* The versions of v's code that are published. *)
PublishedOf(v) == {w \in Templates : CodeOf[w] = CodeOf[v] /\ template[w] = "published"}

(* The publications of a transaction that are written and not committed. *)
Writing(s) ==
    IF session[s].step = "written" THEN session[s].removes \cup {session[s].of} ELSE {}

(* A mistake in the next definition: the index is missing. *)
OnlyPublishedUnindexed(s, v) == TRUE

(* The unique index document_template_one_published: whoever writes a      *)
(* second entry waits for the first to commit, and then fails.             *)
OnlyPublished(s, v) ==
    \A other \in Sessions \ {s} :
        session[other].step = "written" => CodeOf[session[other].of] # CodeOf[v]

(* A mistake in the next definition: the dates are not compared. *)
MayBePublishedAgain(v) == template[v] # "published"

(* document_template_published_consistency: what has been superseded, by   *)
(* this very command included, is not published again.                     *)
MayBePublished(v) == template[v] = "draft"

(* publishTemplate, its two updates: the version in force is superseded    *)
(* and this one published, under the trigger, which reads the fields anew. *)
WritePublication(s) ==
    LET v == session[s].of
    IN  /\ session[s].step = "checked"
        /\ \A other \in Sessions \ {s} : (PublishedOf(v) \cup {v}) \cap Writing(other) = {}
        /\ MayBePublished(v)
        /\ Unbound(fields[v]) = {} /\ Unresolvable(KindOf[v], fields[v]) = {}
        /\ OnlyPublished(s, v)
        /\ session' = [session EXCEPT ![s].step = "written", ![s].removes = PublishedOf(v)]
        /\ UNCHANGED <<template, fields, documents, rewritten>>

CommitPublication(s) ==
    LET t == session[s]
    IN  /\ t.step = "written"
        /\ template' = [v \in Templates |->
               IF v = t.of THEN "published"
               ELSE IF v \in t.removes THEN "superseded" ELSE template[v]]
        /\ rewritten' = IF fields[t.of] # t.fields THEN rewritten \cup {t.of} ELSE rewritten
        /\ session' = [session EXCEPT ![s] = Idle]
        /\ UNCHANGED <<fields, documents>>

(* previewTemplateAction and renderTemplate, their first reads: the code   *)
(* of the version asked for, and the version of it that is published.      *)
BeginRender(s, asked, v) ==
    /\ session[s].step = "idle"
    /\ template[asked] # None
    /\ v \in PublishedOf(asked)
    /\ session' = [session EXCEPT ![s] = Holding("rendering", v, NoFields, {})]
    /\ UNCHANGED <<template, fields, documents, rewritten>>

(* renderTemplate, the rest: the fields are read, the data of the subject  *)
(* resolved, and the document or the causes of its absence recorded.       *)
Issue(s, subject) ==
    LET v == session[s].of
        present == ResolveBindings(KindOf[v], subject)
    IN  /\ session[s].step = "rendering"
        /\ Cardinality(documents) < MaxDocuments
        /\ documents' = documents \cup
               {[of |-> v, fields |-> fields[v], present |-> present,
                 missing |-> Missing(BodyOf[v], fields[v], present)]}
        /\ session' = [session EXCEPT ![s] = Idle]
        /\ UNCHANGED <<template, fields, rewritten>>

(* A constraint, a trigger or a lost connection aborts the transaction. *)
Rollback(s) ==
    /\ session[s].step # "idle"
    /\ session' = [session EXCEPT ![s] = Idle]
    /\ UNCHANGED <<template, fields, documents, rewritten>>

Next ==
    \/ \E v \in Templates : UploadTemplate(v)
    \/ \E s \in Sessions, v \in Templates :
           \/ \E config \in Configurations : BeginSet(s, v, config)
           \/ BeginPublish(s, v)
           \/ \E asked \in Templates : BeginRender(s, asked, v)
    \/ \E s \in Sessions :
           \/ CommitSet(s)
           \/ WritePublication(s)
           \/ CommitPublication(s)
           \/ \E subject \in Subjects : Issue(s, subject)
           \/ Rollback(s)

Spec == Init /\ [][Next]_vars
-----------------------------------------------------------------------------
(* The versions of a code are editions: one is published at a time and one *)
(* that was superseded is never published again, however publications and  *)
(* changes of fields interleave.                                           *)
Published == {v \in Templates : template[v] = "published"}

Superseded == {v \in Templates : template[v] = "superseded"}

Abstract == INSTANCE Editions WITH
    Editions <- Templates, WorkOf <- CodeOf, inForce <- Published, retired <- Superseded

ImplementsEditions == Abstract!Spec

(* A document has no gap nobody decided on (docs of 0019: "sin dato        *)
(* obligatorio no se imprime"): every mark of its body prints its data, or *)
(* belongs to an optional field without data.  It takes the checks of the  *)
(* publication and those of the rendering together.                        *)
(* Excepted are the versions whose fields were written past those checks,  *)
(* and a mark that one body uses both as a block and as plain text.        *)
NoDocumentHasGaps ==
    \A d \in documents : d.missing = {} /\ d.of \notin rewritten =>
        LET body == BodyOf[d.of]
            Decided(m) == ~ d.fields[m].mandatory /\ d.fields[m].binding \notin d.present
        IN  /\ \A m \in body.blocks : PrintedBlock(m, d.fields, d.present) = "data" \/ Decided(m)
            /\ \A m \in body.plain \ body.blocks :
                   \/ PrintedPlain(m, d.fields, d.present) = "data"
                   \/ m \in DOMAIN d.fields /\ Decided(m)

(* A document can show the format it was issued with: the fields it used   *)
(* are those its version still has (0019: changing a link "reescribiría en *)
(* silencio de dónde salió un dato impreso"), with the first exception.    *)
DocumentsMatchTheirVersion ==
    \A d \in documents : d.of \notin rewritten =>
        template[d.of] \in {"published", "superseded"} /\ d.fields = fields[d.of]

(* A promise that is not kept: what is or was published keeps its fields.  *)
(* The trigger looks at the status alone, so a superseded version can be   *)
(* configured anew, and so can one that is being published.                *)
PublishedFieldsStand ==
    [][\A v \in Templates : template[v] \in {"published", "superseded"} =>
           fields'[v] = fields[v]]_vars

(* A promise that is not kept: a document is made of paths the code can    *)
(* resolve (document-render.ts: a path it does not know "aborta el         *)
(* render").  The trigger drops what follows "[]" and the rendering takes  *)
(* the whole text for a path without data.                                 *)
UnknownPathsAbort ==
    \A d \in documents : d.missing = {} => \A m \in DOMAIN d.fields : d.fields[m].binding \in Paths
==============================================================================
