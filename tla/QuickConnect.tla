----------------------------- MODULE QuickConnect -----------------------------
(***************************************************************************)
(* The form of lcrt in which a session is made ("Quick connect") or        *)
(* changed ("Session Option"): src/src/cqconnect.c, src/src/iqconnect.c    *)
(* and the show and create callbacks of the protocols.  The form shows the *)
(* fields of one protocol; its button makes a record or overwrites one.    *)
(*                                                                         *)
(* The form and the dialog for a password on top of it are modal, but      *)
(* their main loops still serve the terminals: a login dialog can change   *)
(* the record that the form shows.  Names, folders and the tree are the    *)
(* subject of SessionStore.                                                *)
(***************************************************************************)
EXTENDS Integers, FiniteSets

CONSTANTS Names,          \* the labels sessions can have
          NoName,         \* uname of a form for a new session
          Hosts, Logins,  \* what the user enters as host and login name, not ""
          Ports,          \* what the user enters as port
          Passwords, Commands,            \* not ""
          Devices, ListedDevices,         \* serial devices, those in the list
          DefaultDevice,
          Programs, DefaultProgram,       \* shells, the first of the list
          QuotedTexts,    \* the labels and texts with an apostrophe
          AutoSaves                       \* states of "auto save options" tried

ASSUME FormAssumption ==
  /\ NoName \notin Names
  /\ "" \notin Hosts \cup Logins \cup Passwords \cup Commands \cup Devices \cup Programs
  /\ Ports \subseteq Nat
  /\ DefaultDevice \in ListedDevices /\ ListedDevices \subseteq Devices
  /\ DefaultProgram \in Programs
  /\ AutoSaves \in (SUBSET BOOLEAN) \ {{}}

VARIABLES
  rec,       \* u_config: the records, by name
  rows,      \* the rows of the user table
  autoSave,  \* the check item "auto save options"
  alwaysSaved,  \* history: auto save has been on since there are sessions
  refused,   \* history: the sessions whose last statement has failed
  form,      \* lqconnect and its widgets
  asking,    \* the password dialog of ssh is up
  qStatus,   \* window.q_status
  remember,  \* sessions with save_passwd set by their login dialog
  agreed,    \* history: the passwords the user chose to store
  app        \* "up", or how lcrt died

storeVars == <<rec, rows>>
saveVars == <<autoSave, alwaysSaved>>
rowVars == <<rows, refused>>
formVars == <<storeVars, refused, saveVars, form, asking, qStatus, remember, agreed, app>>

-----------------------------------------------------------------------------
(* Sessions.  SSH1 and SSH2, and Telnet and Telnet/SSL, share their code.  *)
(***************************************************************************)
Protocols == {"ssh", "telnet", "rlogin", "serial", "shell"}
LoginProtocols == {"ssh", "telnet"}
HostProtocols == LoginProtocols \cup {"rlogin"}
DefaultPort(protocol) == CASE protocol = "ssh" -> 22 [] protocol = "telnet" -> 23 [] OTHER -> 0

\* The password field holds a password, or the parameters of a serial line (its
\* device stands for them all), or the program of a shell session.
Session == [proto : Protocols, host : Hosts \cup Devices \cup Programs \cup {""},
            login : Logins \cup {""}, password : Passwords \cup Devices \cup Programs \cup {""},
            port : Ports \cup {0, 22, 23}, command : Commands \cup {""}]

\* lcrtc_user_create clears the record.
NewSession == [proto |-> "ssh", host |-> "", login |-> "", password |-> "",
               port |-> 0, command |-> ""]

Updated(table, name, session) ==
  [n \in DOMAIN table \cup {name} |-> IF n = name THEN session ELSE table[n]]

\* Statements have texts between apostrophes as they are: one with an apostrophe
\* ends there, and SQLite refuses what is left.
Broken(name, session) ==
  {name, session.host, session.login, session.password, session.command} \cap QuotedTexts # {}

\* lcrt_user_save_one: the UPDATE and the INSERT after it fail, or the row is
\* written.  Nobody looks at the result.
WriteSession(name, session) ==
  IF Broken(name, session) THEN refused' = refused \cup {name} /\ UNCHANGED rows
  ELSE rows' = Updated(rows, name, session) /\ refused' = refused \ {name}

\* When lcrt_window_get_auto_save says so.
Save(name, session) == IF autoSave THEN WriteSession(name, session) ELSE UNCHANGED rowVars

-----------------------------------------------------------------------------
(* The form.  "typed" is the history of the fields the user has changed.   *)
(***************************************************************************)
Fields == {"host", "login", "port", "device", "program", "command"}
Form == [flag : {"none", "new", "options"}, uname : Names \cup {NoName}, nproto : Protocols,
         host : Hosts \cup {""}, login : Logins \cup {""}, port : Ports \cup {0, 22, 23},
         device : Devices \cup {""}, program : Programs \cup {""}, command : Commands \cup {""},
         connect : BOOLEAN, auth : BOOLEAN, typed : SUBSET Fields]

NoForm == [flag |-> "none", uname |-> NoName, nproto |-> "ssh", host |-> "", login |-> "",
           port |-> 0, device |-> "", program |-> "", command |-> "",
           connect |-> TRUE, auth |-> TRUE, typed |-> {}]

\* Mutant: the telnet and ssh forms leave the default command to the user.
CommandShown_Never(f) == f.command

\* Only the protocols with a host read the command of the session.
CommandShown(f) ==
  IF f.flag = "options" /\ f.nproto \in HostProtocols THEN rec[f.uname].command ELSE f.command

\* lcrt_serial_show: a device that is not in the list leaves the box empty.
DeviceShown(f) ==
  IF f.nproto # "serial" THEN ""
  ELSE IF f.flag # "options" THEN DefaultDevice
  ELSE IF rec[f.uname].password \in ListedDevices THEN rec[f.uname].password ELSE ""

\* lcrt_shell_show takes the field for a number, and the number of a path is 0.
ProgramShown(f) == IF f.nproto = "shell" THEN DefaultProgram ELSE ""

\* The button of a new session waits for a host name, if the protocol has one.
ConnectShown(f) == f.flag = "options" \/ f.nproto \notin HostProtocols

\* The protocol's show callback: new widgets, except for the command's.
Show(f) ==
  LET known == f.flag = "options" /\ f.nproto \in HostProtocols IN
  [flag |-> f.flag, uname |-> f.uname, nproto |-> f.nproto,
   host |-> IF known THEN rec[f.uname].host ELSE "",
   login |-> IF known THEN rec[f.uname].login ELSE "",
   port |-> DefaultPort(f.nproto),
   device |-> DeviceShown(f), program |-> ProgramShown(f), command |-> CommandShown(f),
   connect |-> ConnectShown(f), auth |-> TRUE, typed |-> f.typed \cap {"command"}]

FormUp == app = "up" /\ form.flag # "none" /\ ~asking
MainWindow == app = "up" /\ form.flag = "none"

\* The combo box starts at ssh2.
OpenNew ==
  /\ MainWindow
  /\ form' = Show([NoForm EXCEPT !.flag = "new"])
  /\ UNCHANGED <<storeVars, refused, saveVars, asking, qStatus, remember, agreed, app>>

OpenOptions(n) ==
  /\ MainWindow
  /\ form' = Show([NoForm EXCEPT !.flag = "options", !.uname = n, !.nproto = rec[n].proto])
  /\ UNCHANGED <<storeVars, refused, saveVars, asking, qStatus, remember, agreed, app>>

\* Mutant: the protocol of a session can be changed as well.
CanSelectProtocol_Always == TRUE

\* The combo box is insensitive in the options of a session.
CanSelectProtocol == form.flag = "new"

SelectProtocol(protocol) ==
  /\ FormUp /\ CanSelectProtocol /\ protocol # form.nproto
  /\ form' = Show([form EXCEPT !.nproto = protocol])
  /\ UNCHANGED <<storeVars, refused, saveVars, asking, qStatus, remember, agreed, app>>

\* The user changes a field of the protocol shown, and the button follows the
\* host name.
EnterHost(h) ==
  /\ form.nproto \in HostProtocols
  /\ form' = [form EXCEPT !.host = h, !.connect = h # "", !.typed = @ \cup {"host"}]
EnterLogin(l) ==
  /\ form.nproto \in HostProtocols
  /\ form' = [form EXCEPT !.login = l, !.typed = @ \cup {"login"}]
EnterPort(p) ==
  /\ form.nproto \in LoginProtocols
  /\ form' = [form EXCEPT !.port = p, !.typed = @ \cup {"port"}]
EnterDevice(d) ==
  /\ form.nproto = "serial"
  /\ form' = [form EXCEPT !.device = d, !.typed = @ \cup {"device"}]
EnterProgram(p) ==
  /\ form.nproto = "shell"
  /\ form' = [form EXCEPT !.program = p, !.typed = @ \cup {"program"}]
EnterCommand(c) == form' = [form EXCEPT !.command = c, !.typed = @ \cup {"command"}]

Enter ==
  /\ FormUp
  /\ \/ \E h \in Hosts \cup {""} : EnterHost(h)
     \/ \E l \in Logins \cup {""} : EnterLogin(l)
     \/ \E p \in Ports : EnterPort(p)
     \/ \E d \in Devices : EnterDevice(d)
     \/ \E p \in Programs : EnterProgram(p)
     \/ \E c \in Commands \cup {""} : EnterCommand(c)
  /\ UNCHANGED <<storeVars, refused, saveVars, asking, qStatus, remember, agreed, app>>

-----------------------------------------------------------------------------
(* The button: Connect, or Ok in the options of a session.                 *)
(***************************************************************************)
\* The protocol's create callback: the record it makes of the form and of what
\* the record held.
Created(was) ==
  [proto |-> form.nproto,
   host |-> CASE form.nproto = "serial" -> form.device
              [] form.nproto = "shell" -> form.program
              [] OTHER -> form.host,
   login |-> IF form.nproto \in LoginProtocols THEN form.login ELSE was.login,
   password |-> CASE form.nproto = "serial" -> form.device
                  [] form.nproto = "shell" -> form.program
                  [] OTHER -> was.password,
   port |-> IF form.nproto \in LoginProtocols THEN form.port ELSE 0,
   command |-> form.command]

\* A serial session needs a device, which may turn out not to be accessible.
Creatable ==
  \/ form.nproto \in LoginProtocols \cup {"shell"}
  \/ form.nproto = "serial" /\ form.device # ""

\* lcrt_qconnect_on_button_connect_clicked after a success.
CloseForm == form' = NoForm /\ qStatus' = "ok"

\* Mutant: only new sessions are saved.
SaveCreated_New(n) == IF form.flag = "new" THEN Save(n, rec'[n]) ELSE UNCHANGED rowVars

SaveCreated(n) == Save(n, rec'[n])

Connect(n) ==
  /\ FormUp /\ form.connect /\ Creatable
  /\ IF form.flag = "new" THEN n \in Names \ DOMAIN rec ELSE n = form.uname
  /\ rec' = Updated(rec, n, Created(IF form.flag = "new" THEN NewSession ELSE rec[n]))
  /\ CloseForm
  /\ SaveCreated(n)
  /\ UNCHANGED <<saveVars, asking, remember, agreed, app>>

\* The device or the shell is not there: an error, and the form stays.
ConnectFails ==
  /\ FormUp /\ form.connect /\ form.nproto \in {"serial", "shell"}
  /\ qStatus' = "cancel"
  /\ UNCHANGED <<storeVars, refused, saveVars, form, asking, remember, agreed, app>>

\* lcrt_rlogin_create returns no value: NULL, or a wild pointer that counts as a
\* session and that saving reads.  What such a read may add to the table is left
\* out.
ConnectRlogin ==
  /\ FormUp /\ form.connect /\ form.nproto = "rlogin"
  /\ \/ qStatus' = "cancel" /\ UNCHANGED <<form, app>>
     \/ CloseForm /\ app' \in (IF autoSave THEN {"up", "segv"} ELSE {"up"})
  /\ UNCHANGED <<storeVars, refused, saveVars, asking, remember, agreed>>

\* The loop of lcrt_create_qconnect runs the destroyed form for ever when a
\* failed attempt has left its mark in q_status.
CancelForm ==
  /\ FormUp
  /\ form' = NoForm
  /\ app' = IF qStatus = "cancel" THEN "spins" ELSE "up"
  /\ UNCHANGED <<storeVars, refused, saveVars, asking, qStatus, remember, agreed>>

Agreed(n, p) == {n} \X ({p} \cap Passwords)

-----------------------------------------------------------------------------
(* The password dialog, behind the "Properties" button of ssh.             *)
(***************************************************************************)
ToggleAuthentication ==
  /\ FormUp /\ form.nproto = "ssh"
  /\ form' = [form EXCEPT !.auth = ~@]
  /\ UNCHANGED <<storeVars, refused, saveVars, asking, qStatus, remember, agreed, app>>

Properties ==
  /\ FormUp /\ form.nproto = "ssh" /\ form.flag = "options" /\ form.auth
  /\ asking' = TRUE
  /\ UNCHANGED <<storeVars, refused, saveVars, form, qStatus, remember, agreed, app>>

PasswordCancel ==
  /\ app = "up" /\ asking
  /\ asking' = FALSE
  /\ UNCHANGED <<storeVars, refused, saveVars, form, qStatus, remember, agreed, app>>

\* Both entries hold the password; otherwise there is an error and nothing else.
PasswordOk(p) ==
  /\ app = "up" /\ asking
  /\ asking' = FALSE
  /\ rec' = [rec EXCEPT ![form.uname].password = p]
  /\ agreed' = agreed \cup Agreed(form.uname, p)
  /\ Save(form.uname, rec'[form.uname])
  /\ UNCHANGED <<saveVars, form, qStatus, remember, app>>

-----------------------------------------------------------------------------
(* Around the form.                                                        *)
(***************************************************************************)
AsksLogin(n) == rec[n].proto \in LoginProtocols

\* The login dialog of a tab, which comes up over every other dialog.
Login(n, l, p, keep) ==
  /\ app = "up" /\ AsksLogin(n)
  /\ rec' = [rec EXCEPT ![n] = [@ EXCEPT !.login = l, !.password = p]]
  /\ remember' = IF keep THEN remember \cup {n} ELSE remember \ {n}
  /\ agreed' = IF keep THEN agreed \cup Agreed(n, p) ELSE agreed
  /\ UNCHANGED <<rowVars, saveVars, form, asking, qStatus, app>>

\* The login succeeds with "Remember ?" chosen, in the tab in front.
LoggedIn(n) ==
  /\ app = "up" /\ n \in remember
  /\ WriteSession(n, rec[n])
  /\ UNCHANGED <<rec, saveVars, form, asking, qStatus, remember, agreed, app>>

SwitchAutoSave ==
  /\ MainWindow
  /\ autoSave' \in AutoSaves \ {autoSave}
  /\ alwaysSaved' = (DOMAIN rec \cup DOMAIN rows = {} /\ autoSave')
  /\ UNCHANGED <<storeVars, refused, form, asking, qStatus, remember, agreed, app>>

\* lcrt ends, or is killed, and starts again with the rows.
Restart ==
  /\ rec' = rows
  /\ form' = NoForm /\ asking' = FALSE /\ qStatus' = "ok" /\ remember' = {} /\ refused' = {}
  /\ app' = "up"
  /\ UNCHANGED <<rows, saveVars, agreed>>

-----------------------------------------------------------------------------
NoSessions == [n \in {} |-> NewSession]

FormInit ==
  /\ rec = NoSessions /\ rows = NoSessions
  /\ autoSave \in AutoSaves /\ alwaysSaved = autoSave
  /\ form = NoForm /\ asking = FALSE /\ qStatus = "ok"
  /\ remember = {} /\ agreed = {} /\ refused = {}
  /\ app = "up"

FormStep ==
  \/ OpenNew
  \/ \E n \in DOMAIN rec : OpenOptions(n)
  \/ \E protocol \in Protocols : SelectProtocol(protocol)
  \/ Enter
  \/ \E n \in Names : Connect(n)
  \/ ConnectFails
  \/ ConnectRlogin
  \/ CancelForm

PasswordStep ==
  \/ ToggleAuthentication
  \/ Properties
  \/ PasswordCancel
  \/ \E p \in Passwords \cup {""} : PasswordOk(p)

OtherStep ==
  \/ \E n \in DOMAIN rec, l \in Logins, p \in Passwords \cup {""}, keep \in BOOLEAN :
       Login(n, l, p, keep)
  \/ \E n \in Names : LoggedIn(n)
  \/ SwitchAutoSave
  \/ Restart

FormNext == FormStep \/ PasswordStep \/ OtherStep

FormSpec == FormInit /\ [][FormNext]_formVars

-----------------------------------------------------------------------------
(* Properties.                                                             *)
(***************************************************************************)
\* Whatever protocols are tried in the form before, no session is made that has
\* to dial a host and has none.
HostsAreNamed ==
  \A n \in DOMAIN rec : rec[n].proto \in LoginProtocols => rec[n].host \in Hosts

\* The one field that three kinds of session share holds what the session's own
\* protocol reads from it: a password is never opened as a device, nor the name
\* of a program sent to a host as a password.
PasswordFits(session) ==
  session.password \in CASE session.proto \in LoginProtocols -> Passwords \cup {""}
                         [] session.proto = "serial" -> Devices
                         [] session.proto = "shell" -> Programs
                         [] OTHER -> {}
PasswordsFit == \A n \in DOMAIN rec : PasswordFits(rec[n])

\* Every session has what its protocol reads, whatever protocols the form went
\* through before and whatever dialogs were answered over it.
SessionsFit == HostsAreNamed /\ PasswordsFit

\* Ok in the options of an ssh or telnet session leaves the host and the command
\* that the user has not changed, and a password set meanwhile.
OptionsOk(n) == form.flag = "options" /\ Connect(n)
KeepsTheRest ==
  [][\A n \in DOMAIN rec :
       OptionsOk(n) /\ rec[n].proto \in LoginProtocols =>
         /\ "host" \in form.typed \/ rec'[n].host = rec[n].host
         /\ "command" \in form.typed \/ rec'[n].command = rec[n].command
         /\ rec'[n].password = rec[n].password]_formVars

\* With auto save on all along, what the form has set is in the table, unless an
\* apostrophe has kept the last statement for this session from being one; a login
\* and a password can be newer in the record.  No session suffers for another's
\* apostrophe, and the next statement without one makes up for those that failed.
FormSaved(n) ==
  /\ n \in DOMAIN rows
  /\ \A f \in {"proto", "host", "port", "command"} : rows[n][f] = rec[n][f]
FormIsSaved == alwaysSaved => \A n \in DOMAIN rec \ refused : FormSaved(n)

\* README:13: "auto save connection information so that can auto login remote
\* server".  With auto save on all along, so it is for every session.
AutoSavedAll == alwaysSaved => \A n \in DOMAIN rec : FormSaved(n)

\* The manual (lcrt.xml:420): "To view or change the current session settings".
\* The options show the port, the shell and the command of their session.
Showing == form.flag = "options" /\ app = "up"
PortShown ==
  (Showing /\ form.nproto \in LoginProtocols /\ "port" \notin form.typed)
    => form.port = rec[form.uname].port
ShellShown ==
  (Showing /\ form.nproto = "shell" /\ "program" \notin form.typed)
    => form.program = rec[form.uname].password
CommandIsShown ==
  (Showing /\ "command" \notin form.typed) => form.command = rec[form.uname].command

\* The manual (lcrt.xml:76): lcrt "can save your session information, such as
\* hostname, username and password(if you choose save password)".
OnlyChosenPasswords ==
  \A n \in DOMAIN rows : rows[n].password \in Passwords => <<n, rows[n].password>> \in agreed

\* protocol.h:90: "When you click the connect button in quick connect dialog, we
\* should create a terminal to connect with remote": the button makes a session
\* when it closes the form.
ConnectMakesSession ==
  [][form.flag = "new" /\ (ConnectRlogin \/ \E n \in Names : Connect(n)) /\ form' = NoForm
       => DOMAIN rec' # DOMAIN rec]_formVars
=============================================================================
