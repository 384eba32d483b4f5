------------------------------ MODULE SmtpVault ------------------------------
(***************************************************************************)
(* The SMTP accounts in the encrypted vault (src/src/secureStore.js), the  *)
(* web panel that edits them (src/src/web.js), and the core that picks an  *)
(* account for each mail and keeps a transporter for it (src/src/app.js,   *)
(* src/src/mailer.js).  Panel and core are two processes that derive their *)
(* key from the salt in the file; nothing but single statements is atomic. *)
(*                                                                         *)
(* Accounts go by their place in the order of names.  What a save writes   *)
(* goes by the number of the save: the fingerprint of an account changes   *)
(* with it.  A salt goes by its number, and so does the key made from it.  *)
(***************************************************************************)
EXTENDS Naturals, FiniteSets, FiniteSetsExt

CONSTANTS MaxAccount, MaxSaves, MaxSalts, MaxDeaths   \* bounds of the model

ASSUME VaultBoundAssumption == {MaxAccount, MaxSaves, MaxSalts, MaxDeaths} \subseteq Nat

VARIABLES
  salt,      \* secure_meta: db_salt; 0: there is none
  phase,     \* of each process, in opening the vault
  key,       \* the key that each process has derived
  rows,      \* secure_items: the account of each name
  chosen,    \* secure_items: the setting of the default account
  deleting,  \* the account that the panel has deleted, its default not yet seen to
  cache,     \* of each account: the save its transporter was made from
  mail,      \* a mail on its way through the core
  saves, salts, deaths,   \* how many so far
  will,      \* history: the default that the operator has set
  raced      \* history: a process made a salt while another was about to

file == <<salt, rows, chosen>>
opening == <<phase, key, salts, raced>>
vaultVars == <<file, opening, deleting, cache, mail, saves, deaths, will>>

Process == {"core", "web"}
Account == 1 .. MaxAccount
Salt == 0 .. MaxSalts
NotChosen == [name |-> 0, key |-> 0]

\* save: the save that wrote the row; 0: there is no row.  atleast: history,
\* the save that the account of the mail had when the mail was accepted.
NoRow == [save |-> 0, key |-> 0]
Mail == [step : {"none", "listed", "accepted", "refused", "sent", "failed"},
         asked : 0 .. MaxAccount, match : 0 .. MaxAccount, seen : SUBSET Account,
         account : 0 .. MaxAccount, atleast : 0 .. MaxSaves, used : 0 .. MaxSaves]
NoMail == [step |-> "none", asked |-> 0, match |-> 0, seen |-> {}, account |-> 0,
           atleast |-> 0, used |-> 0]

VaultTypeOK ==
  /\ salt \in Salt /\ salts \in Salt /\ key \in [Process -> Salt]
  /\ phase \in [Process -> {"down", "creating", "up"}]
  /\ rows \in [Account -> [save : 0 .. MaxSaves, key : Salt]]
  /\ chosen \in [name : 0 .. MaxAccount, key : Salt]
  /\ {deleting, will} \subseteq 0 .. MaxAccount
  /\ cache \in [Account -> 0 .. MaxSaves]
  /\ mail \in Mail
  /\ saves \in 0 .. MaxSaves /\ deaths \in 0 .. MaxDeaths
  /\ raced \in BOOLEAN

VaultInit ==
  /\ salt = 0 /\ salts = 0 /\ key = [p \in Process |-> 0]
  /\ phase = [p \in Process |-> "down"]
  /\ rows = [a \in Account |-> NoRow] /\ chosen = NotChosen
  /\ deleting = 0 /\ will = 0
  /\ cache = [a \in Account |-> 0] /\ mail = NoMail
  /\ saves = 0 /\ deaths = 0 /\ raced = FALSE

-----------------------------------------------------------------------------
(* Opening the vault: getOrCreateDbSalt.                                   *)

\* Mutant: the salt of the file is not looked for.
MakeSaltAlways(p) ==
  /\ phase[p] = "down"
  /\ phase' = [phase EXCEPT ![p] = "creating"]
  /\ UNCHANGED <<file, key, salts, raced, deleting, cache, mail, saves, deaths, will>>

ReadSalt(p) ==
  /\ phase[p] = "down"
  /\ IF salt # 0
     THEN phase' = [phase EXCEPT ![p] = "up"] /\ key' = [key EXCEPT ![p] = salt]
     ELSE phase' = [phase EXCEPT ![p] = "creating"] /\ UNCHANGED key
  /\ UNCHANGED <<file, salts, raced, deleting, cache, mail, saves, deaths, will>>

\* INSERT OR REPLACE: over the salt of a process that was faster.
WriteSalt(p) ==
  /\ phase[p] = "creating" /\ salts < MaxSalts
  /\ salts' = salts + 1 /\ salt' = salts'
  /\ phase' = [phase EXCEPT ![p] = "up"] /\ key' = [key EXCEPT ![p] = salts']
  /\ raced' = (raced \/ \E q \in Process \ {p} : phase[q] = "creating")
  /\ UNCHANGED <<rows, chosen, deleting, cache, mail, saves, deaths, will>>

\* The panel dies between two statements, or the core with a mail, which comes
\* back from the queue.  Either opens the vault again.
Die(p) ==
  /\ phase[p] # "down" /\ deaths < MaxDeaths
  /\ deaths' = deaths + 1
  /\ phase' = [phase EXCEPT ![p] = "down"] /\ key' = [key EXCEPT ![p] = 0]
  /\ IF p = "web" THEN deleting' = 0 /\ UNCHANGED <<cache, mail>>
     ELSE cache' = [a \in Account |-> 0] /\ mail' = NoMail /\ UNCHANGED deleting
  /\ UNCHANGED <<file, salts, raced, saves, will>>

-----------------------------------------------------------------------------
Listed == {a \in Account : rows[a].save # 0}
Opens(p, item) == item.key \in {0, key[p]}

\* decryptRow throws for a row of another key: a list with one is no list.
CanList(p) == phase[p] = "up" /\ \A a \in Account : Opens(p, rows[a])
CanReadDefault(p) == phase[p] = "up" /\ Opens(p, chosen) /\ (chosen.name # 0 \/ CanList(p))

\* getDefaultSmtpAccountName: unless one was chosen, the first by name.
First(accounts) == IF accounts = {} THEN 0 ELSE Min(accounts)
DefaultName == IF chosen.name # 0 THEN chosen.name ELSE First(Listed)

Idle == deleting = 0

\* normalizeSmtpAccount and encryptValue: what a save leaves of an account.
Written(n) == [save |-> n, key |-> key["web"]]

\* upsertSmtpAccount.  When it then asks for the default there always is one,
\* the account itself at the latest, so it never sets it.
Save(a) ==
  /\ Idle /\ phase["web"] = "up" /\ Opens("web", rows[a])
  /\ saves < MaxSaves /\ saves' = saves + 1
  /\ rows' = [rows EXCEPT ![a] = Written(saves')]
  /\ UNCHANGED <<salt, chosen, opening, deleting, cache, mail, deaths, will>>

\* setDefaultSmtpAccountName.
SetDefault(a) ==
  /\ Idle /\ phase["web"] = "up" /\ rows[a].save # 0 /\ Opens("web", rows[a])
  /\ chosen' = [name |-> a, key |-> key["web"]]
  /\ will' = a
  /\ UNCHANGED <<salt, rows, opening, deleting, cache, mail, saves, deaths>>

\* deleteSmtpAccount: first the row, which need not be readable.
DeleteRow(a) ==
  /\ Idle /\ phase["web"] = "up"
  /\ rows' = [rows EXCEPT ![a] = NoRow]
  /\ deleting' = a
  /\ will' = IF will = a THEN 0 ELSE will
  /\ UNCHANGED <<salt, chosen, opening, cache, mail, saves, deaths>>

\* Then the default, if the panel can read what it needs for that.
DeleteDefault ==
  /\ deleting # 0
  /\ deleting' = 0
  /\ chosen' = IF CanReadDefault("web") /\ CanList("web") /\ DefaultName = deleting
               THEN [name |-> First(Listed), key |-> key["web"]] ELSE chosen
  /\ UNCHANGED <<salt, rows, opening, cache, mail, saves, deaths, will>>

-----------------------------------------------------------------------------
(* The core: POST /send, and the worker.                                   *)

\* getSmtpAccounts reads the accounts, and then the default.  "match" is the
\* only account one of whose addresses is the From of the mail.
ListAccounts ==
  /\ mail.step = "none" /\ CanList("core")
  /\ \E asked \in 0 .. MaxAccount, match \in {0} \cup Listed :
       mail' = [NoMail EXCEPT !.step = "listed", !.asked = asked, !.match = match, !.seen = Listed]
  /\ UNCHANGED <<file, opening, deleting, cache, saves, deaths, will>>

\* resolveSmtpAccount.
Resolved ==
  CASE mail.asked # 0 -> mail.asked
    [] mail.asked = 0 /\ mail.match # 0 -> mail.match
    [] OTHER -> IF DefaultName \in mail.seen THEN DefaultName ELSE First(mail.seen)

Resolve ==
  /\ mail.step = "listed"
  /\ mail' = IF ~CanReadDefault("core") THEN NoMail
             ELSE IF Resolved \in mail.seen
             THEN [mail EXCEPT !.step = "accepted", !.account = Resolved,
                                 !.atleast = rows[Resolved].save]
             ELSE [mail EXCEPT !.step = "refused"]
  /\ UNCHANGED <<file, opening, deleting, cache, saves, deaths, will>>

\* Mutant: the transporter of an account is made once.
TransporterOnce(a) == IF cache[a] # 0 THEN cache[a] ELSE rows[a].save

\* getTransporter: the cached one, if its fingerprint is that of the row.
Transporter(a) == IF cache[a] = rows[a].save THEN cache[a] ELSE rows[a].save

Send ==
  /\ mail.step = "accepted"
  /\ LET a == mail.account IN
     IF CanList("core") /\ CanReadDefault("core") /\ rows[a].save # 0
     THEN /\ cache' = [cache EXCEPT ![a] = Transporter(a)]
          /\ mail' = [mail EXCEPT !.step = "sent", !.used = Transporter(a)]
     ELSE mail' = [mail EXCEPT !.step = "failed"] /\ UNCHANGED cache
  /\ UNCHANGED <<file, opening, deleting, saves, deaths, will>>

NextMail ==
  /\ mail.step \in {"refused", "sent", "failed"}
  /\ mail' = NoMail
  /\ UNCHANGED <<file, opening, deleting, cache, saves, deaths, will>>

VaultNext ==
  \/ \E p \in Process : ReadSalt(p) \/ WriteSalt(p) \/ Die(p)
  \/ \E a \in Account : Save(a) \/ SetDefault(a) \/ DeleteRow(a)
  \/ DeleteDefault \/ ListAccounts \/ Resolve \/ Send \/ NextMail

VaultSpec == VaultInit /\ [][VaultNext]_vaultVars
-----------------------------------------------------------------------------
(***************************************************************************)
(* Whichever accounts come and go while a mail is on its way, and wherever *)
(* the panel died in a deletion: a mail that names no account is refused   *)
(* only if there was none; the default that the operator set stands until  *)
(* its account is deleted; and a mail goes out with nothing older than what *)
(* was saved for its account when the mail was accepted.                   *)
(***************************************************************************)
MailServed ==
  /\ mail.step = "refused" /\ mail.asked = 0 => mail.seen = {}
  /\ will # 0 => chosen.name = will /\ rows[will].save # 0
  /\ mail.step = "sent" => mail.used >= mail.atleast

(***************************************************************************)
(* Every process reads whatever any process has ever written to the vault, *)
(* unless two of them opened it for the first time at the same moment.     *)
(***************************************************************************)
VaultReadable ==
  /\ VaultTypeOK
  /\ ~raced =>
       \A p \in Process :
         phase[p] = "up" => Opens(p, chosen) /\ \A a \in Account : Opens(p, rows[a])
=============================================================================
