------------------------------ MODULE MCSignIn ------------------------------
(* Two openids of one person: the first arrives by polling, the second by  *)
(* redirect.  The table is empty, or holds an account with the first       *)
(* openid that has no phone, or an account with the phone beside it.       *)
EXTENDS SignIn, TLC

HowDelivered == "f1" :> "poll" @@ "f2" :> "web"
Openid       == "f1" :> "w1" @@ "f2" :> "w2"
Unionid      == "f1" :> "u" @@ "f2" :> "u"

Phoneless  == Row(1, "wechat", "w1", "u", 1)
PhoneOwner == Row(2, "phone", "p", "", 2)
Tables     == {{}, {Phoneless}, {Phoneless, PhoneOwner}}

(* Codes alone, with limits of one and two messages; each flow alone; both *)
(* flows with two phones.                                                  *)
Case(fs, ns, fails) == [flows |-> fs, phones |-> ns, rules |-> <<>>, ttl |-> 1, guesses |-> FALSE,
                       faults |-> fails]
Cases == {[flows |-> {}, phones |-> {"p"}, rules |-> <<1, 2>>, ttl |-> 2,
           guesses |-> TRUE, faults |-> 0],
          Case({"f1"}, {"p"}, 1), Case({"f2"}, {"p"}, 1), Case({"f1", "f2"}, {"p", "q"}, 0)}
Symmetric == Permutations(Callbacks) \cup Permutations(Requests)
=============================================================================
