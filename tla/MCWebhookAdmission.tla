-------------------------- MODULE MCWebhookAdmission --------------------------
(* Instances of WebhookAdmission for TLC.  The first release is rolled out *)
(* to a second namespace with a Secret of another name; the second release *)
(* overlaps it there, with and without an image for the Pod's runtime.     *)
EXTENDS WebhookAdmission, TLC

CONSTANTS h1, h2, r1, r2, p1, p2, n1, n2, k1, k2, java, python

Where == p1 :> n2 @@ p2 :> n1
Wants == p1 :> python @@ p2 :> java

Old == [namespaces |-> {n1}, runtimes |-> {java, python}, secret |-> k1]
New == [namespaces |-> {n1, n2}, runtimes |-> {java, python}, secret |-> k2]
Other == [namespaces |-> {n2}, runtimes |-> {java, python}, secret |-> k1]

TwoReplicas == r1 :> h1 @@ r2 :> h2
TwoReleases == h1 :> {Old, New} @@ h2 :> {Other, [Other EXCEPT !.runtimes = {java}]}
=============================================================================
