---------------------------- MODULE MCMigrations ----------------------------
EXTENDS Migrations, TLC

\* Best Actor's nominees are named, Best Picture's are not.
MCSeeds == {"best_actor", "best_picture"}
MCUnnamed == {"best_picture"}

\* The repository embeds one file.
MCFileOf == [s \in MCSeeds |-> 1]
MCCreates == <<{"tables"}>>

\* Two files, to see their order.
MCFileOf2 == "best_actor" :> 1 @@ "best_picture" :> 2
MCCreates2 == <<{"tables"}, {"indexes"}>>

MCObjects == {"tables", "indexes", "columns"}
MCScripts == {"columns"}
=============================================================================
