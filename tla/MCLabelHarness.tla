--------------------------- MODULE MCLabelHarness ---------------------------
EXTENDS LabelHarness
MCAllLabels == -1
MCNoLabel == -1
=============================================================================
