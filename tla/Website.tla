------------------------------ MODULE Website -------------------------------
(***************************************************************************)
(* Accounts together with the contact page (src/apps/core/views.py), which *)
(* anybody can use and fills in the number of a visitor who is logged in.  *)
(* A browser repeats on a reload the request that made the page it shows:  *)
(* that must not save a message twice.                                     *)
(***************************************************************************)
EXTENDS Accounts

VARIABLES
    page,           \* page[s]: the request that made the contact page of session s
    inbox,          \* ContactMessage rows in the order they came
    pressed         \* how often a visitor pressed "send" with a good form

contactVars == <<page, inbox, pressed>>
websiteVars == <<vars, contactVars>>

(* What can be in the field of the number: what is typed in other forms    *)
(* and a number that somebody breaks off at a dash.                        *)
Typed == Key \cup Number \cup {<<0, 9, 1, 2, Gap>>}

Get == [method |-> "GET"]
Post(t) == [method |-> "POST", mobile |-> t]

ContactMessages == [mobile : Typed, is_read : BOOLEAN]

(* The pattern's \d stands for the Persian digits as well; nothing but the *)
(* spaces around the number is changed.                                    *)
MatchesPattern(t) ==
    /\ Len(t) = 11 /\ IsPrefix(<<0, 9>>, t)
    /\ \A i \in DOMAIN t : english(t[i]) \in Digit

ContactForm == [t \in Typed |-> MatchesPattern(t)]

WebsiteTypeOK ==
    /\ TypeOK
    /\ page \in [Session -> {Get} \cup {Post(t) : t \in Typed}]
    /\ inbox \in Seq(ContactMessages)
    /\ pressed \in Nat

WebsiteInit ==
    /\ Init
    /\ page = [s \in Session |-> Get]
    /\ inbox = <<>>
    /\ pressed = 0

AnswersItself(s, request) ==        \* faulty: shows the thanks without a redirect
    page' = [page EXCEPT ![s] = request]

(* A saved message is answered with a redirect: the browser gets the page. *)
AnswerSaved(s, request) == page' = [page EXCEPT ![s] = Get]

contact(s, request) ==
    IF request.method = "POST" /\ ContactForm[request.mobile]
    THEN /\ inbox' = Append(inbox, [mobile |-> request.mobile, is_read |-> FALSE])
         /\ AnswerSaved(s, request)
    ELSE /\ page' = [page EXCEPT ![s] = request]
         /\ UNCHANGED inbox

(* The form comes with the number of the user; a visitor types something.  *)
InitialMobile(s) ==
    IF request_user(s) = None THEN Typed ELSE {request_user(s)}

Press(s) ==
    \E t \in InitialMobile(s) :
        /\ Spend(2 * SMS)
        /\ contact(s, Post(t))
        /\ pressed' = pressed + IF ContactForm[t] THEN 1 ELSE 0
        /\ UNCHANGED <<now, flowVars, edits, throttleVars>>

Reload(s) ==
    /\ page[s] # Get
    /\ contact(s, page[s])
    /\ UNCHANGED <<vars, pressed>>

mark_as_read(i, read) ==
    /\ inbox[i].is_read # read
    /\ Edit
    /\ inbox' = [inbox EXCEPT ![i].is_read = read]
    /\ UNCHANGED <<now, flowVars, throttleVars, page, pressed>>

WebsiteNext ==
    \/ Next /\ UNCHANGED contactVars
    \/ \E s \in Session : Press(s) \/ Reload(s)
    \/ \E i \in DOMAIN inbox, read \in BOOLEAN : mark_as_read(i, read)

WebsiteSpec == WebsiteInit /\ [][WebsiteNext]_websiteVars

-----------------------------------------------------------------------------
(* No order of presses, refused forms and reloads saves more messages than *)
(* a visitor sent (contact redirects after it has saved).                  *)
OnePerPress == Len(inbox) <= pressed
=============================================================================
