---------------------------- MODULE MCAdmission ----------------------------
(* Small instances of Admission for TLC. *)
EXTENDS Admission

OneStore == {"pedidos"}

\* SQLITE_PATH: one database for every store.
OneDatabase == <<"ixmati.db">>
AllInOne == [s \in Stores |-> "ixmati.db"]

\* SQLITE_PATHS, as in containers/compose/multi-store.yaml: one for each store.
TwoStores == {"pedidos", "usuarios"}
TwoDatabases == <<"pedidos.db", "usuarios.db">>
OneEach == [s \in Stores |-> IF s = "pedidos" THEN "pedidos.db" ELSE "usuarios.db"]

=============================================================================
