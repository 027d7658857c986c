---------------------------- MODULE MCMigrations ----------------------------
\* Three files like 002, 003 and 008 of migrations/.
EXTENDS Migrations

CONSTANTS p1, p2

Shipped == <<<<"create">>, <<"create", "create">>, <<"ensure", "ensure">>>>
=============================================================================
