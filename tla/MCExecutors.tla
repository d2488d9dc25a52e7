----------------------------- MODULE MCExecutors -----------------------------
(* Executors on hosts of every supported family, current and old, with and  *)
(* without a wrapper, and on one whose os-release cannot be read.           *)
EXTENDS Executors

Host(release, files, tools) ==
    [release |-> release, readable |-> TRUE, files |-> files, tools |-> tools]

Base == {"reboot", "shutdown", "cloud-init"}

MCHosts ==
    {Host({"alpine"}, {"alpine-release"}, {"apk", "reboot", "doas", "su"}),
     Host({"ubuntu", "debian"}, {"debian_version"}, {"apt-get", "sudo", "su"} \cup Base),
     Host({"debian"}, {"debian_version"}, {"apt-get", "su"} \cup Base),
     Host({}, {"debian_version"}, {"apt-get"} \cup Base),
     Host({"rhel", "red hat", "fedora"}, {"redhat-release"}, {"dnf", "yum", "sudo", "su"} \cup Base),
     Host({"centos", "rhel", "fedora"}, {"redhat-release"}, {"yum"} \cup Base),
     Host({}, {"redhat-release"}, {"yum", "su"} \cup Base),
     Host({"fedora"}, {"redhat-release"}, {"dnf", "yum"} \cup Base),
     Host({"suse"}, {}, {"zypper", "sudo", "su"} \cup Base),
     Host({"arch"}, {}, {"pacman", "sudo"} \cup Base),
     Host({"gentoo"}, {}, {"emerge"} \cup Base),
     [Host({"debian"}, {"debian_version"}, {"apt-get"} \cup Base) EXCEPT !.readable = FALSE]}

=============================================================================
