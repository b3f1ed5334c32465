------------------------------ MODULE MCBackups ------------------------------
EXTENDS Backups

\* Two domains; neither begins with the other.
Apart == [n \in Names |-> {}]

\* 1 is foo.co and 2 is foo.co-op.com.  The digits of a time stamp come before
\* letters, so the archives of foo.co are the first of the list.
Alike == [n \in Names |-> IF n = 1 THEN {2} ELSE {}]

=============================================================================
