---------------------------- MODULE MCActivation ----------------------------
(* One member of staff, two telephone numbers and an address.               *)
EXTENDS AccountActivation

CONSTANTS phone1, phone2, mail1, s1, s2, s3, v1, c1, c2

MCKind == [c \in Contacts |-> IF c = mail1 THEN "email" ELSE "phone"]
MCSendTo == [s \in Sends |-> CASE s = s1 -> phone1 [] s = s2 -> phone2 [] OTHER -> mail1]
MCTyped == [c \in Completions |-> [k \in Kinds |->
               IF k = "email" THEN mail1 ELSE IF c = c1 THEN phone1 ELSE phone2]]

\* A wrong number is corrected, the address being proven; two registrations, with
\* different numbers, and a code that is issued anew; an old code is replaced.
ActivationScenarios ==
    {[calls |-> {s1, s2, v1, c1}, done |-> {s3}, legacy |-> FALSE],
     [calls |-> {s2, c1, c2} \cup Issues, done |-> {s1, s3}, legacy |-> FALSE],
     [calls |-> {s1, v1, c1} \cup Issues, done |-> {s3}, legacy |-> TRUE]}
=============================================================================
