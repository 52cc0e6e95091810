------------------------------ MODULE MCSessions ------------------------------
EXTENDS Sessions

\* An SSH session whose account comes back, a forwarding client that needs a second
\* connection, and one of each that compete for the permits.
MCBudgets == {[changes |-> 2, peers |-> 1, opens |-> 0],
              [changes |-> 1, peers |-> 0, opens |-> 2],
              [changes |-> 0, peers |-> 1, opens |-> 1]}
=============================================================================
