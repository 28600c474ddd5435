\* Violated: see EndResets in MCVmeDoc.
SPECIFICATION Spec
CONSTANTS
    Images <- Files
    Tries = 3
PROPERTY EndResets
