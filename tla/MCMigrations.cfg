SPECIFICATION Spec
INVARIANTS SchemaIsSound RowsSurvive OnlyARebuildBlocks
