---------------------------- MODULE MCDashboard ------------------------------
EXTENDS Dashboard, TLC

\* An action of each kind: those with a check are declared done too early.
MCExpect == "publisher" :> "published" @@ "hold" :> "green" @@ "typo" :> "other"
              @@ "form" :> "none" @@ "sent" :> "none"
MCDeclaredDone == {"publisher", "hold", "typo", "sent"}
=============================================================================
