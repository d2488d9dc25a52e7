---------------------------- MODULE MCInstaller -----------------------------
(* Model checking of Installer: the init systems a run considers.          *)
EXTENDS Installer

AllInitSystems == {"systemd", "openrc", "sysvinit", "upstart", "unknown"}
Systemd == {"systemd"}

=============================================================================
