\* Every text of the families.  The grammar follows the parser wherever its document
\* says something else.  A text is read, and that is all (CHECK_DEADLOCK).
CONSTANTS
    Sources <- SmallSources
    AsParser = {"type_parameters", "interface_methods", "enum_variants", "empty_lists",
                "rest_last", "lambda_parameters", "type_names", "match_statements",
                "union_members", "generic_calls", "wildcard_last", "separators",
                "coalescing", "else_if"}
SPECIFICATION Spec
INVARIANT Reads
PROPERTY Consumes
CHECK_DEADLOCK FALSE
