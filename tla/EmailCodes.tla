------------------------------ MODULE EmailCodes ------------------------------
(***************************************************************************)
(* Signing in with a code sent by e-mail: the three keys the service keeps *)
(* in Redis for one address, and the forms the codes are asked for and     *)
(* entered in.  Each command to Redis is a step of its own, so two calls   *)
(* about the address run into each other; the process may stop between     *)
(* two of them.  What is hashed is the code's number, the last step of a   *)
(* call is its answer, and the account of the address is in Accounts.      *)
(***************************************************************************)
EXTENDS Naturals, FiniteSets

CONSTANTS
    MaxSends,       \* MAX_SEND_ATTEMPTS
    MaxTries,       \* MAX_VERIFY_ATTEMPTS
    Handlers,       \* bound: calls under way at once; the first free one is taken
    Forms,          \* forms that are shown, in tabs or browsers
    MaxCalls        \* bound: calls

NoForm == "no form"

ASSUME CodesAssumption ==
    /\ {MaxSends, MaxTries, MaxCalls} \subseteq Nat \ {0}
    /\ IsFiniteSet(Handlers) /\ Handlers \subseteq Nat /\ NoForm \notin Forms

VARIABLES
    code,       \* otp:<address>, the number of the code that is hashed
    tries,      \* otp-verify-attempts:<address>
    rate,       \* otp-attempts:<address>
    calls,      \* handler -> a call to the service
    form,       \* the forms
    made,       \* codes made
    over,       \* history: codes up to it were used or replaced or expired
    guesses,    \* history: codes compared with the one stored last
    sends,      \* history: codes stored in this window of the rate limit
    crossed,    \* history: a call to send met one to verify, or a call broke off
    asked       \* calls made

redisVars == <<code, tries, rate>>
historyVars == <<over, guesses, sends, crossed>>
codesVars == <<redisVars, calls, form, made, historyVars, asked>>

(* A counter without "expires" stays until it is deleted.  A counter of    *)
(* tries that expires before the code does was started for an earlier one. *)
Absent == [n |-> 0, expires |-> "never"]
Idle == [at |-> "idle", form |-> NoForm, heard |-> FALSE, given |-> 0, hash |-> 0, since |-> 0]
Fresh(page) == [page |-> page, step |-> "email", loading |-> FALSE]

Sending == {"checkRate", "store", "resetTries", "countSend", "limitRate", "mail"}
Verifying == {"checkTries", "dropCode", "read", "countTry", "limitTries", "compare", "spend",
              "clearTries", "accepted"}

CodesInit ==
    /\ code = 0 /\ tries = Absent /\ rate = Absent
    /\ calls = [h \in Handlers |-> Idle]
    /\ form \in [Forms -> {Fresh("login"), Fresh("link")}]
    /\ made = 0
    /\ over = 0 /\ guesses = 0 /\ sends = 0 /\ crossed = FALSE
    /\ asked = 0

-----------------------------------------------------------------------------
(* Redis *)

(* INCR: a counter that is not there begins at 1, without an expiry        *)
Incr(counter) == [counter EXCEPT !.n = @ + 1]

(* EXPIRE does nothing to a key that is not there                          *)
SetExpiry(counter) == IF counter.n = 0 THEN counter ELSE [counter EXCEPT !.expires = "later"]

CodeExpires ==
    /\ code # 0
    /\ code' = 0 /\ over' = made
    /\ UNCHANGED <<tries, rate, calls, form, made, guesses, sends, crossed, asked>>

(* Both last OTP_TTL, so the tries of a code outlast it                    *)
TriesExpire ==
    /\ tries.expires = "sooner" \/ (tries.expires = "later" /\ code = 0)
    /\ tries' = Absent
    /\ UNCHANGED <<code, rate, calls, form, made, historyVars, asked>>

RateExpires ==
    /\ rate.expires = "later"
    /\ rate' = Absent /\ sends' = 0
    /\ UNCHANGED <<code, tries, calls, form, made, over, guesses, crossed, asked>>

-----------------------------------------------------------------------------
(* The service *)

Goes(h, at) == calls' = [calls EXCEPT ![h].at = at]

(* What the form does with the answer, if it is still waiting for it       *)
Answers(h, shown) ==
    /\ calls' = [calls EXCEPT ![h] = Idle]
    /\ form' = IF calls[h].heard THEN [form EXCEPT ![calls[h].form] = shown] ELSE form

(* The error is shown; on the login page by a form that is new             *)
WithError(f) ==
    IF form[f].step = "away" THEN Fresh("login") ELSE [form[f] EXCEPT !.loading = FALSE]
Refuses(h) == Answers(h, WithError(calls[h].form))

(* sendOtp *)

CheckRate(h) ==
    /\ calls[h].at = "checkRate"
    /\ \/ rate.n >= MaxSends /\ Refuses(h)
       \/ rate.n < MaxSends /\ Goes(h, "store") /\ UNCHANGED form
    /\ UNCHANGED <<redisVars, made, historyVars, asked>>

StoreCode(h) ==
    /\ calls[h].at = "store"
    /\ made' = made + 1 /\ code' = made + 1
    /\ calls' = [calls EXCEPT ![h] = [@ EXCEPT !.at = "resetTries", !.hash = made + 1]]
    /\ tries' = IF tries.expires = "later" THEN [tries EXCEPT !.expires = "sooner"] ELSE tries
    /\ over' = made /\ guesses' = 0 /\ sends' = sends + 1
    /\ UNCHANGED <<rate, form, crossed, asked>>

ResetTries(h) ==
    /\ calls[h].at = "resetTries"
    /\ tries' = Absent
    /\ Goes(h, "countSend")
    /\ UNCHANGED <<code, rate, form, made, historyVars, asked>>

(* Only the call that began the counter limits its life                    *)
CountSend(h) ==
    /\ calls[h].at = "countSend"
    /\ rate' = Incr(rate)
    /\ Goes(h, IF rate'.n = 1 THEN "limitRate" ELSE "mail")
    /\ UNCHANGED <<code, tries, form, made, historyVars, asked>>

LimitRate(h) ==
    /\ calls[h].at = "limitRate"
    /\ rate' = SetExpiry(rate)
    /\ Goes(h, "mail")
    /\ UNCHANGED <<code, tries, form, made, historyVars, asked>>

(* The form asks for the code                                              *)
AtCode(f) == [form[f] EXCEPT !.step = "otp", !.loading = FALSE]

(* A mail that cannot be sent is logged, and the answer the same           *)
Mail(h) ==
    /\ calls[h].at = "mail"
    /\ Answers(h, AtCode(calls[h].form))
    /\ UNCHANGED <<redisVars, made, historyVars, asked>>

(* verifyOtp *)

(* Mistake: the limit is one too high *)
CheckTriesLate(h) ==
    /\ calls[h].at = "checkTries"
    /\ Goes(h, IF tries.n > MaxTries THEN "dropCode" ELSE "read")
    /\ UNCHANGED <<redisVars, form, made, historyVars, asked>>

CheckTries(h) ==
    /\ calls[h].at = "checkTries"
    /\ Goes(h, IF tries.n >= MaxTries THEN "dropCode" ELSE "read")
    /\ UNCHANGED <<redisVars, form, made, historyVars, asked>>

DropCode(h) ==
    /\ calls[h].at = "dropCode"
    /\ code' = 0 /\ over' = made
    /\ Refuses(h)
    /\ UNCHANGED <<tries, rate, made, guesses, sends, crossed, asked>>

ReadCode(h) ==
    /\ calls[h].at = "read"
    /\ \/ code = 0 /\ Refuses(h)
       \/ /\ code # 0
          /\ calls' = [calls EXCEPT ![h] = [@ EXCEPT !.at = "countTry", !.hash = code]]
          /\ UNCHANGED form
    /\ UNCHANGED <<redisVars, made, historyVars, asked>>

CountTry(h) ==
    /\ calls[h].at = "countTry"
    /\ tries' = Incr(tries)
    /\ Goes(h, IF tries'.n = 1 THEN "limitTries" ELSE "compare")
    /\ UNCHANGED <<code, rate, form, made, historyVars, asked>>

LimitTries(h) ==
    /\ calls[h].at = "limitTries"
    /\ tries' = SetExpiry(tries)
    /\ Goes(h, "compare")
    /\ UNCHANGED <<code, rate, form, made, historyVars, asked>>

(* With the code as it was when it was read                                *)
Compare(h) ==
    /\ calls[h].at = "compare"
    /\ guesses' = IF calls[h].hash = made THEN guesses + 1 ELSE guesses
    /\ \/ calls[h].given = calls[h].hash /\ Goes(h, "spend") /\ UNCHANGED form
       \/ calls[h].given # calls[h].hash /\ Refuses(h)
    /\ UNCHANGED <<redisVars, made, over, sends, crossed, asked>>

(* Mistake: an accepted code stays *)
SpendNothing(h) ==
    /\ calls[h].at = "spend"
    /\ over' = made
    /\ Goes(h, "clearTries")
    /\ UNCHANGED <<redisVars, form, made, guesses, sends, crossed, asked>>

SpendCode(h) ==
    /\ calls[h].at = "spend"
    /\ code' = 0 /\ over' = made
    /\ Goes(h, "clearTries")
    /\ UNCHANGED <<tries, rate, form, made, guesses, sends, crossed, asked>>

ClearTries(h) ==
    /\ calls[h].at = "clearTries"
    /\ tries' = Absent
    /\ Goes(h, "accepted")
    /\ UNCHANGED <<code, rate, form, made, historyVars, asked>>

(* The login page is left, or the form for linking closed, even when it    *)
(* has been cancelled and opened again since; unless what follows, in      *)
(* Accounts, fails                                                         *)
Accepted(h) ==
    /\ calls[h].at = "accepted"
    /\ \/ Refuses(h)
       \/ /\ calls' = [calls EXCEPT ![h] = Idle]
          /\ form' = [f \in Forms |-> IF calls[h].form = f THEN Fresh(form[f].page) ELSE form[f]]
    /\ UNCHANGED <<redisVars, made, historyVars, asked>>

(* A connection lost, or the process gone, in the middle of a call         *)
BreaksOff(h) ==
    /\ calls[h] # Idle
    /\ Refuses(h)
    /\ crossed' = TRUE
    /\ UNCHANGED <<redisVars, made, over, guesses, sends, asked>>

(* The caller hears of an error while the call goes on                     *)
AnswerLost(h) ==
    /\ calls[h].heard
    /\ form' = [form EXCEPT ![calls[h].form] = WithError(calls[h].form)]
    /\ calls' = [calls EXCEPT ![h] = [@ EXCEPT !.heard = FALSE, !.form = NoForm]]
    /\ UNCHANGED <<redisVars, made, historyVars, asked>>

-----------------------------------------------------------------------------
(* The forms *)

Under(stage) == \E h \in Handlers : calls[h].at \in stage

Calls(f, at, given) ==
    /\ asked < MaxCalls /\ asked' = asked + 1
    /\ \E h \in Handlers :
           /\ calls[h] = Idle /\ \A g \in Handlers : g < h => calls[g] # Idle
           /\ calls' = [calls EXCEPT ![h] = [Idle EXCEPT !.at = at, !.form = f, !.heard = TRUE,
                                             !.given = given, !.since = over]]
    /\ crossed' = (crossed \/ (at = "checkRate" /\ Under(Verifying))
                           \/ (at = "checkTries" /\ Under(Sending)))
    /\ UNCHANGED <<redisVars, made, over, guesses, sends>>

(* What a form has buttons for *)
AsksAddress(f) == form[f].step = "email" /\ ~form[f].loading
AsksCode(f) == form[f].step = "otp" /\ ~form[f].loading

(* handleSendOtp *)
SendOtp(f) ==
    /\ AsksAddress(f)
    /\ form' = [form EXCEPT ![f].loading = TRUE]
    /\ Calls(f, "checkRate", 0)

(* handleResend, when the cooldown is over                                 *)
Resend(f) ==
    /\ AsksCode(f)
    /\ form' = [form EXCEPT ![f].loading = TRUE]
    /\ Calls(f, "checkRate", 0)

(* The login page shows that it is busy instead of the form                *)
Away == [Fresh("login") EXCEPT !.step = "away", !.loading = TRUE]

(* handleVerifyOtp: a code a mail has brought, or a wrong one              *)
VerifyOtp(f) ==
    /\ AsksCode(f)
    /\ form' = [form EXCEPT ![f] = IF @.page = "login" THEN Away ELSE [@ EXCEPT !.loading = TRUE]]
    /\ \E given \in 0..made : Calls(f, "checkTries", given)

(* handleBackToEmail *)
BackToEmail(f) ==
    /\ AsksCode(f)
    /\ form' = [form EXCEPT ![f].step = "email"]
    /\ UNCHANGED <<redisVars, calls, made, historyVars, asked>>

(* [cancel] and a new beginning: what was asked goes on                    *)
CancelLinking(f) ==
    /\ form[f].page = "link"
    /\ form' = [form EXCEPT ![f] = Fresh("link")]
    /\ calls' = [h \in Handlers |-> IF calls[h].form = f THEN [calls[h] EXCEPT !.heard = FALSE]
                                    ELSE calls[h]]
    /\ UNCHANGED <<redisVars, made, historyVars, asked>>

(* The page is loaded anew                                                 *)
Reload(f) ==
    /\ form' = [form EXCEPT ![f] = Fresh(@.page)]
    /\ calls' = [h \in Handlers |->
                    IF calls[h].form = f THEN [calls[h] EXCEPT !.heard = FALSE, !.form = NoForm]
                    ELSE calls[h]]
    /\ UNCHANGED <<redisVars, made, historyVars, asked>>

-----------------------------------------------------------------------------

Served(h) ==
    \/ CheckRate(h) \/ StoreCode(h) \/ ResetTries(h) \/ CountSend(h) \/ LimitRate(h) \/ Mail(h)
    \/ CheckTries(h) \/ DropCode(h) \/ ReadCode(h) \/ CountTry(h) \/ LimitTries(h) \/ Compare(h)
    \/ SpendCode(h) \/ ClearTries(h) \/ Accepted(h)

CodesNext ==
    \/ \E h \in Handlers : Served(h) \/ BreaksOff(h) \/ AnswerLost(h)
    \/ CodeExpires \/ TriesExpire \/ RateExpires
    \/ \E f \in Forms : \/ SendOtp(f) \/ Resend(f) \/ VerifyOtp(f) \/ BackToEmail(f)
                        \/ CancelLinking(f) \/ Reload(f)

CodesSpec == CodesInit /\ [][CodesNext]_codesVars

-----------------------------------------------------------------------------
(* Properties *)

Counters == [n : Nat, expires : {"never", "sooner", "later"}]

CodesTypeOK ==
    /\ {code, made, over, guesses, sends, asked} \subseteq Nat
    /\ {tries, rate} \subseteq Counters
    /\ calls \in [Handlers -> [at : {"idle"} \cup Sending \cup Verifying, form : Forms \cup {NoForm},
                               heard : BOOLEAN, given : Nat, hash : Nat, since : Nat]]
    /\ form \in [Forms -> [page : {"login", "link"}, step : {"email", "otp", "away"}, loading : BOOLEAN]]
    /\ crossed \in BOOLEAN

(* A counter that stands for good would shut the address out: one without  *)
(* an expiry has a call that is about to set it, unless a call broke off.  *)
CountersExpire ==
    crossed \/ /\ rate.n > 0 /\ rate.expires = "never" => Under({"limitRate"})
               /\ tries.n > 0 /\ tries.expires = "never" => Under({"limitTries"})

(* However the calls, the expiries and new codes follow each other, and    *)
(* whichever calls of one kind overlap, one code is compared with few      *)
(* entries, and few codes are sent in a window of the rate limit: the      *)
(* limit, and one more for each call that had passed the check already.    *)
AttemptsBounded ==
    ~crossed => /\ guesses <= MaxTries + Cardinality(Handlers) - 1
                /\ sends <= MaxSends + Cardinality(Handlers) - 1

(* What a verification accepts had not been used, replaced or expired when *)
(* it began, also when calls meet or break off.                            *)
AcceptedIsLive == \A h \in Handlers : calls[h].at = "accepted" => calls[h].given > calls[h].since

(* What these rest on *)

HandlersAt(stages) == {h \in Handlers : calls[h].at \in stages}

(* A stored code is the newest and younger than what is over; a call that  *)
(* has read one read it after it began.                                    *)
LiveFits ==
    /\ over <= made /\ (code # 0 => code = made /\ over < made)
    /\ \A h \in Handlers :
           /\ calls[h].since <= over
           /\ calls[h].at \in {"countTry", "limitTries", "compare"} => calls[h].since < calls[h].hash
           /\ calls[h].at \in {"spend", "clearTries", "accepted"} => calls[h].since < calls[h].given

(* Calls that are past the check of the tries                              *)
Counted == HandlersAt({"limitTries", "compare"})
Guessing == HandlersAt({"countTry", "limitTries", "compare"} \cup {s \in {"read"} : code # 0})

TriesFit ==
    /\ ~(Under(Sending) /\ Under(Verifying))
    /\ Under({"resetTries"}) => guesses = 0
    /\ tries.expires = "sooner" => Under({"resetTries"})
    /\ Under({"clearTries"}) => code = 0
    /\ code # 0 => guesses + Cardinality(Counted) <= tries.n
    /\ guesses + Cardinality(Guessing) <= MaxTries + Cardinality(Handlers) - 1

(* Calls that have stored a code and not counted it; and those that will    *)
Uncounted == HandlersAt({"resetTries", "countSend"})
Admitted == HandlersAt({"store", "resetTries", "countSend"})

SendsFit ==
    /\ sends <= rate.n + Cardinality(Uncounted)
    /\ rate.n + Cardinality(Admitted) <= MaxSends + Cardinality(Handlers) - 1

CodesInv == CodesTypeOK /\ LiveFits /\ (crossed \/ (TriesFit /\ SendsFit)) /\ CountersExpire
=============================================================================
