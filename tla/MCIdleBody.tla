----------------------------- MODULE MCIdleBody -----------------------------
\* The instance of IdleBody that IdleBody.cfg checks: one worker after another.
EXTENDS IdleBody

\* Body n is read when those before it are closed.
OneByOne == [b \in Bodies |-> {c \in Bodies : c < b}]

\* Two chunks of the last body, so that order means something there.
Lengths == [b \in Bodies |-> IF b = 3 THEN 2 ELSE 1]

=============================================================================
