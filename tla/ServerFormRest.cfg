\* One save at a time, one change in the form, one deployment by somebody else.
\* The page may stay closed.
CONSTANTS
 CustomKey = {"EXTRA"}
 Artifact = {a1}
 Varied <- VariedFields
 Save = {v1}
 MaxEdits = 1
 MaxOthers = 1
SPECIFICATION Spec
CHECK_DEADLOCK FALSE
PROPERTY SaveKeepsTheRest
