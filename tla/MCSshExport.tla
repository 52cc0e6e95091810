------------------------------- MODULE MCSshExport -------------------------------
EXTENDS SshExport

TwoSlots == 1 .. 2

\* The loop neither reads nor writes the user's file: an edit while it runs is
\* the same as one just before or just after.
EditsBesideLoop == edits' # edits => ~at("running")
=============================================================================
