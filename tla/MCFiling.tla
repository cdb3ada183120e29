------------------------------ MODULE MCFiling -----------------------------
\* Filing for TLC: two directories named alike, a server in each, the second
\* told its project; what is found in the first changes.
EXTENDS Filing

CONSTANTS here, there, told

MCFolder == [d \in Dir |-> "api"]
MCLooks == [d \in Dir |-> {"folder"} \cup (IF d = here THEN {"unsure", "workspace", "web"} ELSE {})]
MCChildren == [d \in Dir |-> IF d = here THEN {"web"} ELSE {}]
MCAt == [s \in Server |-> IF s = told THEN there ELSE here]
MCDefault == [s \in Server |-> IF s = told THEN "web" ELSE None]

=============================================================================
