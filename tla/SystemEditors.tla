---------------------------- MODULE SystemEditors ---------------------------
(***************************************************************************)
(* The editors of the system pages: general settings, user accounts and    *)
(* the SSH service.                                                        *)
(***************************************************************************)
EXTENDS EditorKit

(***************************** general settings ****************************)
General_Read == Schema({"host-name", "domain-name", "time-zone"}, {"name-server"}, {})
Ntp == <<"service_ntp", "">>
NtpServers == Ntp \o <<"server">>
General_Row(t, b) == Row(t, b, General_Read) @@ "ntp_server" :> Vals(t, NtpServers)
General_Write == General_Read
\* An NTP service without servers is not valid: removing the last one removes
\* the service with all its settings.
General_Diff(b, live, u) ==
  LET was == live["ntp_server"]
      to == u["ntp_server"]
  IN Both(Diff(b, General_Write, live, u),
          IF to = {} /\ was # {} THEN Deletes({Ntp})
          ELSE Batch({Append(NtpServers, v) : v \in was \ to}, {}, {Append(NtpServers, v) : v \in to \ was}))
General == LET s == [General_Read EXCEPT !.multi = @ \cup {"ntp_server"}]
           IN Settings("system", s, s)

(******************************* user accounts *****************************)
\* Passwords are hashed by the device and never read back.
User_Read ==
  [Schema({"full-name"}, {}, {}) EXCEPT
     !.secret = {"authentication_plaintext-password"},
     !.tags = "public-keys" :> Schema({"type", "key"}, {}, {})]
User_Write == User_Read
\* A key that differs is written as a whole.
User_Diff(b, isNew, live, u) ==
  LET keys == u["public-keys"]
      was == live["public-keys"]
      changed == {id \in DOMAIN keys : id \notin DOMAIN was \/ was[id] # keys[id]}
      at(id) == b \o <<"public-keys", id>>
  IN Created(b, isNew,
       BothOf({FlatDiff(b, User_Write, live, u),
               Deletes({at(id) : id \in DOMAIN was \ DOMAIN keys}),
               Puts({at(id) \o <<f, keys[id][f]>> : id \in changed, f \in {"type", "key"}})}))
\* A key needs its type and its body; a new account needs a password.
User_Form(k, u) ==
  {r \in {u} : /\ k = <<>> => u["authentication_plaintext-password"] # None
               /\ \A id \in DOMAIN u["public-keys"] : \A f \in {"type", "key"} : u["public-keys"][id][f] # None}
User == [Editor("system_login_user", User_Read, User_Write) EXCEPT !.live = "page"]

(******************************* SSH service *******************************)
\* The presence of the node switches the service on.
Ssh_Read ==
  [Schema({}, {}, {}) EXCEPT
     !.gates = "ssh" :> Schema({}, {"port", "listen-address"}, {"disable-password-authentication"})]
Ssh_Write == Ssh_Read
Ssh == Settings("service", Ssh_Read, Ssh_Write)

(********************************** pages **********************************)
GeneralPage == "general" :> General
UsersPage == "user" :> User
SshPage == "ssh" :> Ssh
SystemPages == GeneralPage @@ UsersPage @@ SshPage
=============================================================================
