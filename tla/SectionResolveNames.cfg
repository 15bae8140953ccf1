SPECIFICATION Spec
CONSTANTS
    Program <- CutProgram
    Kinds <- DocumentedKinds
    Requests <- OneRequest
    Parts <- CutParts
    Absolute <- CutAbsolute
    Replacements <- CutReplacements
INVARIANT
    DocumentedNamesRead
CHECK_DEADLOCK FALSE
