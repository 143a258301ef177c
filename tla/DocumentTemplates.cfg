\* Two versions of one format, configured, published and issued at once.
CONSTANTS
    None = None
    Templates = {"v1", "v2"}
    CodeOf <- OneCode
    KindOf <- Kind
    BodyOf <- Body
    Marks = {"name", "table"}
    Scalars = {"legal_name"}
    Lists = {"rates"}
    Loose = {"rates[]"}
    Unknown = {"bank_account"}
    Configurations <- Forms
    Sessions = {s1, s2}
    MaxDocuments = 1
SYMMETRY SessionSymmetry
SPECIFICATION Spec
INVARIANTS
    NoDocumentHasGaps
    DocumentsMatchTheirVersion
PROPERTIES
    ImplementsEditions
CHECK_DEADLOCK FALSE
