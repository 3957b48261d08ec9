--------------------------- MODULE MCTaskChannel ---------------------------
EXTENDS TaskChannel

CONSTANTS main, child1, child2
AllTasks == {main, child1, child2}
=============================================================================
