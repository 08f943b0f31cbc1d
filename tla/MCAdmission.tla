---------------------------- MODULE MCAdmission ----------------------------
(***************************************************************************)
(* Admission with two requests of one subject and tenant, under one shared *)
(* X-Request-ID or under an identity each.                                 *)
(***************************************************************************)
EXTENDS Admission, TLC

CONSTANTS r1, r2, s1, t1, i1, i2

MCSubjectOf  == r1 :> s1 @@ r2 :> s1
MCTenantOf   == s1 :> t1
MCSharedIdentity == r1 :> i1 @@ r2 :> i1
MCOwnIdentity    == r1 :> i1 @@ r2 :> i2
MCTries      == r1 :> 2 @@ r2 :> 1
MCLimit == "tokens"  :> ("day" :> 3 @@ "month" :> 5)
        @@ "subject" :> ("day" :> 3 @@ "month" :> 0)
        @@ "tenant"  :> ("day" :> 0 @@ "month" :> 3)
MCEstimate == "quota" :> 2 @@ "budget" :> 2
=============================================================================
